---- MODULE Spec2Model ----
(***************************************************************************)
(* RealPic Lite: the invisible-watermark core of src/unnamed/part_004, the  *)
(* upload server of src/server.js and the gallery of src/app.js.           *)
(*                                                                         *)
(*   SpecLSB       the legacy LSB codec (Steganography.encode / decode /   *)
(*                 hasHiddenData) over RGBA byte buffers.                  *)
(*   SpecRW        RobustWatermark.encode / decode on small images, pixel  *)
(*                 by pixel.                                               *)
(*   SpecCapacity  the bit counts of RobustWatermark.encode / decode on    *)
(*                 images of 400x400 pixels and more.                      *)
(*   SpecSlot      one coefficient slot written by encode and read back by *)
(*                 decode.                                                 *)
(*   SpecRNG       SeededRNG: next, nextInt and shuffle.                   *)
(*   SpecRS        ReedSolomon.encode and decode of the words received.    *)
(*   SpecGF        GaloisField.multiply and divide on every pair.          *)
(*   SpecVote      the weighted majority vote of decode.                   *)
(*   SpecHash      computePerceptualHash and verifyPerceptualHash.         *)
(*   SpecCore      the operations of SpecLSB, SpecRW and SpecHash, for     *)
(*                 what they do to the array they are handed.              *)
(*   SpecServer    POST /api/upload and the files of the uploads           *)
(*                 directory, with uploads that overlap.                   *)
(*   SpecGallery   the photos of the page, the photo modal and the         *)
(*                 FileReaders of uploads.                                 *)
(*                                                                         *)
(* Sequences are 1-based: the JavaScript element data[i] is data[i + 1]    *)
(* here.  A string is the sequence of its UTF-16 code units, a binary      *)
(* string ('0'/'1' characters) the sequence of its bits.                   *)
(***************************************************************************)
EXTENDS Integers, Sequences, FiniteSets, TLC

VARIABLES
    lsbData,      \* imageData.data handed to the LSB codec (bytes, RGBA)
    lsbSize,      \* <<imageData.width, imageData.height>>
    lsbMessage,   \* the message handed to Steganography.encode
    lsbCur,       \* the buffer the next decode / hasHiddenData call reads
    lsbEncoded,   \* outcome of Steganography.encode, or NotRun
    lsbDecoded,   \* outcome of Steganography.decode(lsbCur), or NotRun
    lsbHas,       \* outcome of hasHiddenData(lsbCur), or NotRun
    rwImage,      \* the image handed to RobustWatermark: [width, height, data]
    rwMessage,    \* the message handed to RobustWatermark.encode
    rwKey,        \* options.key of the encode call (<<>>: the default key)
    rwCur,        \* the pixel data the next RobustWatermark.decode call reads
    rwEnc,        \* outcome of RobustWatermark.encode, or NotRun
    rwDec,        \* outcome of RobustWatermark.decode, or NotRun
    capSize,      \* <<width, height>> of a full-size image
    capLength,    \* the length of the message to embed in it
    capEnc,       \* the bit counts of RobustWatermark.encode, or NotRun
    capDec,       \* the bit counts of RobustWatermark.decode, or NotRun
    slotIn,       \* a coefficient slot: [coef, bit, spreadValue]
    slotWritten,  \* the coefficient encode leaves in the slot, or NotRun
    slotRead,     \* the bit decode reads from the slot, or NotRun
    rngSeed,      \* this.seed of a SeededRNG
    rngCalls,     \* the number of calls made on it
    rngOut,       \* outcome of the last call on it, or NotRun
    rsIn,         \* [data, nsym]: a byte array and a parity count
    rsOut,        \* outcome of new ReedSolomon(nsym).encode(data), or NotRun
    rsRecv,       \* a received word with its syndromes and rs.decode of it, or NotRun
    gfIn,         \* <<a, b>>: two field elements
    gfOut,        \* gf.multiply(a, b) and gf.divide(a, b), or NotRun
    voteIn,       \* [bits, scores]: extractedBits and confidenceScores
    voteOut,      \* votedBits of lines 581-598 for them, or NotRun
    phImage,      \* the image handed to the perceptual hash functions
    phStored,     \* the hash handed to verifyPerceptualHash as originalHash
    phThreshold,  \* its threshold, <<num, den>> standing for num / den
    phHash,       \* outcome of computePerceptualHash, or NotRun
    phVerify,     \* outcome of verifyPerceptualHash, or NotRun
    srvDir,       \* server: the files of UPLOADS_DIR, oldest first
    srvReqs,      \* server: the uploads being handled
    srvCount,     \* server: uploads received so far
    srvLog,       \* server: what the last enforceImageLimit saw and deleted
    srvResp,      \* server: the last response of POST /api/upload, or NotRun
    photos,       \* gallery: the photos, newest first
    currentPhotoIndex,  \* gallery: index of the photo in the modal, or -1
    galModal,     \* gallery: the modal, hidden or not, and the photo it shows
    galGrid,      \* gallery: the photos as renderGallery last drew them
    galSection,   \* gallery: the section on screen
    galReaders,   \* gallery: FileReaders that have not fired onload yet
    galClock,     \* gallery: photos created so far
    galLast       \* gallery: the last deletePhoto or downloadPhoto, or NotRun

lsbVars == <<lsbData, lsbSize, lsbMessage, lsbCur, lsbEncoded, lsbDecoded, lsbHas>>

rwVars == <<rwImage, rwMessage, rwKey, rwCur, rwEnc, rwDec>>

capVars == <<capSize, capLength, capEnc, capDec>>

slotVars == <<slotIn, slotWritten, slotRead>>

rngVars == <<rngSeed, rngCalls, rngOut>>

rsVars == <<rsIn, rsOut, rsRecv>>

gfVars == <<gfIn, gfOut>>

voteVars == <<voteIn, voteOut>>

hashVars == <<phImage, phStored, phThreshold, phHash, phVerify>>

srvVars == <<srvDir, srvReqs, srvCount, srvLog, srvResp>>

galVars == <<photos, currentPhotoIndex, galModal, galGrid, galSection, galReaders,
             galClock, galLast>>

vars == <<lsbData, lsbSize, lsbMessage, lsbCur, lsbEncoded, lsbDecoded, lsbHas,
          rwImage, rwMessage, rwKey, rwCur, rwEnc, rwDec,
          capSize, capLength, capEnc, capDec,
          slotIn, slotWritten, slotRead, rngSeed, rngCalls, rngOut, rsIn, rsOut, rsRecv,
          gfIn, gfOut, voteIn, voteOut,
          phImage, phStored, phThreshold, phHash, phVerify,
          srvDir, srvReqs, srvCount, srvLog, srvResp,
          photos, currentPhotoIndex, galModal, galGrid, galSection, galReaders,
          galClock, galLast>>

----------------------------------------------------------------------------
(* Generic helpers *)

Min2(a, b) == IF a < b THEN a ELSE b

Max2(a, b) == IF a > b THEN a ELSE b

\* Math.ceil(a / b) for a >= 0, b > 0
CeilDiv(a, b) == (a + b - 1) \div b

Zeros(n) == [i \in 1..n |-> 0]

\* The array handed over itself, where a copy of it was meant
Uint8ClampedArray_M(data) == [own |-> FALSE, data |-> data]

\* new Uint8ClampedArray(data): a buffer of its own that starts with the bytes
\* of data
Uint8ClampedArray(data) == [own |-> TRUE, data |-> data]

\* The bytes of the caller's array after a call that allocated buffer from it
\* and left the bytes written in that buffer
callerData(data, buffer, written) == IF buffer.own THEN data ELSE written

\* An operation that has not run yet
NotRun == [run |-> FALSE]

\* RobustWatermark not in use
RwIdle ==
    /\ rwImage = [width |-> 0, height |-> 0, data |-> <<>>]
    /\ rwMessage = <<>>
    /\ rwKey = <<>>
    /\ rwCur = <<>>
    /\ rwEnc = NotRun
    /\ rwDec = NotRun

CapIdle ==
    /\ capSize = <<0, 0>>
    /\ capLength = 0
    /\ capEnc = NotRun
    /\ capDec = NotRun

SlotIdle ==
    /\ slotIn = [coef |-> 0, bit |-> 0, spreadValue |-> 1]
    /\ slotWritten = NotRun
    /\ slotRead = NotRun

RngIdle ==
    /\ rngSeed = <<0, 0>>
    /\ rngCalls = 0
    /\ rngOut = NotRun

RsIdle ==
    /\ rsIn = [data |-> <<>>, nsym |-> 0]
    /\ rsOut = NotRun
    /\ rsRecv = NotRun

GfIdle ==
    /\ gfIn = <<0, 0>>
    /\ gfOut = NotRun

VoteIdle ==
    /\ voteIn = [bits |-> <<>>, scores |-> <<>>]
    /\ voteOut = NotRun

\* The upload server with an empty directory and no request
SrvIdle ==
    /\ srvDir = <<>>
    /\ srvReqs = {}
    /\ srvCount = 0
    /\ srvLog = NotRun
    /\ srvResp = NotRun

\* The gallery with no photo, on the camera section
GalIdle ==
    /\ photos = <<>>
    /\ currentPhotoIndex = 0 - 1
    /\ galModal = [hidden |-> TRUE, src |-> 0]
    /\ galGrid = <<>>
    /\ galSection = "camera"
    /\ galReaders = <<>>
    /\ galClock = 0
    /\ galLast = NotRun

PhIdle ==
    /\ phImage = [width |-> 0, height |-> 0, data |-> <<>>]
    /\ phStored = <<>>
    /\ phThreshold = <<0, 1>>
    /\ phHash = NotRun
    /\ phVerify = NotRun

\* The parts under study one at a time are not in use
UnitsIdle == SlotIdle /\ RngIdle /\ RsIdle /\ PhIdle /\ GfIdle /\ VoteIdle /\ SrvIdle /\ GalIdle

unitVars == <<slotVars, rngVars, rsVars, hashVars, gfVars, voteVars, srvVars, galVars>>

\* parseInt of a string with no digits
NaN == 0 - 1

\* parseInt results at or above 2^30 are kept as 2^30: the code only compares
\* them with 0, 0xCAFE and 100000, so the comparison results are the code's.
Saturate == 2^30

----------------------------------------------------------------------------
(* Steganography (LSB codec), src/unnamed/part_004:704-788 *)

HEADER_SIZE == 32

MAGIC_NUMBER == 51966

MAGIC_BITS == 16

\* The largest message bit length decode accepts
MAX_MSG_BITS == 100000

\* Number.prototype.toString(2) of a non-negative integer
RECURSIVE toString2(_)
toString2(n) == IF n < 2 THEN <<n>> ELSE Append(toString2(n \div 2), n % 2)

\* String.prototype.padStart(w, '0')
padStart(s, w) == Zeros(Max2(0, w - Len(s))) \o s

\* parseInt(s, 2) of a string of binary digits
RECURSIVE binValue(_)
binValue(s) ==
    IF s = <<>> THEN 0
    ELSE LET v == binValue(SubSeq(s, 1, Len(s) - 1))
         IN  IF v >= Saturate THEN Saturate
             ELSE Min2(Saturate, 2 * v + s[Len(s)])

parseInt2(s) == IF s = <<>> THEN NaN ELSE binValue(s)

\* String.prototype.substr / substring clipped to the string
substring(s, from, to) == SubSeq(s, from + 1, Min2(to, Len(s)))

stringToBinary(str) ==
    [k \in 1..(16 * Len(str)) |->
        padStart(toString2(str[((k - 1) \div 16) + 1]), 16)[((k - 1) % 16) + 1]]

binaryToString(binary) ==
    LET n == CeilDiv(Len(binary), 16)
        charCode(c) == parseInt2(substring(binary, 16 * (c - 1), 16 * c))
        codes == [c \in 1..n |-> charCode(c)]
    IN  SelectSeq(codes, LAMBDA x : x > 0)

\* A write of the bit in place of the byte
setLsb_M(byte, bit) == bit

\* (data[i] & 0xFE) | bit
setLsb(byte, bit) == (byte - (byte % 2)) + bit

\* The write loop of encode (lines 740-745) from byte i, bitIndex bits written
RECURSIVE writeLoop(_, _, _, _)
writeLoop(data, i, bitIndex, fullBinary) ==
    IF ~(i < Len(data) /\ bitIndex < Len(fullBinary)) THEN data
    ELSE IF (i + 1) % 4 = 0 THEN writeLoop(data, i + 1, bitIndex, fullBinary)
    ELSE writeLoop([data EXCEPT ![i + 1] = setLsb(data[i + 1], fullBinary[bitIndex + 1])],
                   i + 1, bitIndex + 1, fullBinary)

\* Mutant: capacity counted over all four bytes of a pixel
StegTooLong_M(totalBitsNeeded, dataLength) ==
    totalBitsNeeded > dataLength

\* Capacity check of encode (line 732)
StegTooLong(totalBitsNeeded, dataLength) ==
    4 * CeilDiv(totalBitsNeeded, 3) > dataLength

\* Line 747: the image encode returns, with the bytes it leaves in the array it
\* was called with (input) and whether the buffer returned is another one
stegReturn(imageData, buffer, written) ==
    [run |-> TRUE, threw |-> FALSE, data |-> written,
     width |-> imageData.width, height |-> imageData.height,
     distinct |-> buffer.own, input |-> callerData(imageData.data, buffer, written)]

\* Steganography.encode(imageData, message)
StegEncode(imageData, message) ==
    LET data == imageData.data
        messageBinary == stringToBinary(message)
        headerBits == MAGIC_BITS + HEADER_SIZE
        totalBitsNeeded == headerBits + Len(messageBinary)
        fullBinary == padStart(toString2(MAGIC_NUMBER), MAGIC_BITS)
                      \o padStart(toString2(Len(messageBinary)), HEADER_SIZE)
                      \o messageBinary
    IN  IF StegTooLong(totalBitsNeeded, Len(data))
        THEN [run |-> TRUE, threw |-> TRUE, data |-> <<>>, input |-> data]
        ELSE stegReturn(imageData, Uint8ClampedArray(data),
                        writeLoop(Uint8ClampedArray(data).data, 0, 0, fullBinary))

\* The read loops of decode (755-759) and hasHiddenData (779-783): the LSBs of
\* the non-alpha bytes from byte i on, until limit bits are collected
RECURSIVE readLoop(_, _, _, _)
readLoop(data, i, bits, limit) ==
    IF ~(i < Len(data) /\ Len(bits) < limit) THEN bits
    ELSE IF (i + 1) % 4 = 0 THEN readLoop(data, i + 1, bits, limit)
    ELSE readLoop(data, i + 1, Append(bits, data[i + 1] % 2), limit)

\* The message loop of decode (767-771); bitIndex carries on from the header loop
RECURSIVE msgLoop(_, _, _, _, _)
msgLoop(data, i, bitIndex, msgBits, msgLen) ==
    IF ~(i < Len(data) /\ Len(msgBits) < msgLen) THEN msgBits
    ELSE IF (i + 1) % 4 = 0 THEN msgLoop(data, i + 1, bitIndex, msgBits, msgLen)
    ELSE IF bitIndex <= (MAGIC_BITS + HEADER_SIZE) - 1
         THEN msgLoop(data, i + 1, bitIndex + 1, msgBits, msgLen)
    ELSE msgLoop(data, i + 1, bitIndex + 1, Append(msgBits, data[i + 1] % 2), msgLen)

\* Mutant: the upper limit of the length guard is missing
StegBadLength_M(msgLen) ==
    msgLen # NaN /\ msgLen <= 0

\* The length guard of decode (line 764)
StegBadLength(msgLen) ==
    msgLen # NaN /\ (msgLen <= 0 \/ msgLen > MAX_MSG_BITS)

StegDecode(data) ==
    LET headerBits == MAGIC_BITS + HEADER_SIZE
        bits == readLoop(data, 0, <<>>, headerBits)
        bitIndex == Len(bits)
        msgLen == parseInt2(substring(bits, MAGIC_BITS, Len(bits)))
    IN  IF parseInt2(substring(bits, 0, MAGIC_BITS)) # MAGIC_NUMBER
        THEN [run |-> TRUE, null |-> TRUE, str |-> <<>>]
        ELSE IF StegBadLength(msgLen)
        THEN [run |-> TRUE, null |-> TRUE, str |-> <<>>]
        ELSE [run |-> TRUE, null |-> FALSE,
              str |-> binaryToString(
                          msgLoop(data, 0, bitIndex, <<>>,
                                  IF msgLen = NaN THEN 0 ELSE msgLen))]

\* Mutant: the fast path also demands a valid length field
hasHiddenData_M(data) ==
    ~StegDecode(data).null

hasHiddenData(data) ==
    parseInt2(readLoop(data, 0, <<>>, MAGIC_BITS)) = MAGIC_NUMBER

----------------------------------------------------------------------------
(* Inputs of the LSB codec *)

\* Largest pixel count of an input buffer
MaxStegPixels == 28

\* Longest message
MaxStegLen == 2

\* Number of distinct pixel contents per size
StegPatterns == 2

\* Code units messages are made of: NUL, 'A', '~' (ASCII) and the euro sign
StegChars == {0, 65, 126, 8364}

\* A deterministic RGBA buffer of p pixels
PatternImage(p, pat) ==
    [k \in 1..(4 * p) |-> ((k - 1) * (37 + 2 * pat) + 101 * pat) % 256]

StegMessages == UNION {[1..n -> StegChars] : n \in 0..MaxStegLen}

\* Buffers whose first non-alpha LSBs hold a chosen 16-bit magic field and a
\* chosen 32-bit length field (hi * 65536 + lo)
HeaderImage(p, pat, magic, hi, lo) ==
    writeLoop(PatternImage(p, pat), 0, 0,
              padStart(toString2(magic), 16) \o padStart(toString2(hi), 16)
              \o padStart(toString2(lo), 16))

CraftedImages ==
    {HeaderImage(p, 1, m, hi, lo) :
        p \in {6, 16, 20}, m \in {MAGIC_NUMBER, MAGIC_NUMBER + 1, MAGIC_NUMBER - 32768},
        hi \in {0, 1, 32768}, lo \in {0, 16, 32, 34464, 34465}}

\* The widths and heights tried for a buffer of p pixels: one row, two rows
stegSizes(p) == {<<p, 1>>} \cup (IF p > 0 /\ p % 2 = 0 THEN {<<p \div 2, 2>>} ELSE {})

LsbIdle ==
    /\ lsbData = <<>>
    /\ lsbSize = <<0, 0>>
    /\ lsbMessage = <<>>
    /\ lsbCur = <<>>
    /\ lsbEncoded = NotRun
    /\ lsbDecoded = NotRun
    /\ lsbHas = NotRun

LsbInit ==
    /\ \/ /\ lsbData \in {PatternImage(p, pat) : p \in 0..MaxStegPixels, pat \in 1..StegPatterns}
          /\ lsbMessage \in StegMessages
       \/ /\ lsbData \in CraftedImages
          /\ lsbMessage = <<>>
    /\ lsbSize \in stegSizes(Len(lsbData) \div 4)
    /\ lsbCur = lsbData
    /\ lsbEncoded = NotRun
    /\ lsbDecoded = NotRun
    /\ lsbHas = NotRun
    /\ RwIdle
    /\ CapIdle
    /\ UnitsIdle

\* Steganography.encode(imageData, message); the caller goes on with the result
LsbEncode ==
    /\ ~lsbEncoded.run
    /\ ~lsbDecoded.run
    /\ ~lsbHas.run
    /\ lsbEncoded' = StegEncode([width |-> lsbSize[1], height |-> lsbSize[2],
                                 data |-> lsbData], lsbMessage)
    /\ lsbCur' = IF lsbEncoded'.threw THEN lsbCur ELSE lsbEncoded'.data
    /\ lsbData' = lsbEncoded'.input
    /\ UNCHANGED <<lsbSize, lsbMessage, lsbDecoded, lsbHas, rwVars, capVars, unitVars>>

\* Steganography.decode on the current buffer
LsbDecode ==
    /\ ~lsbDecoded.run
    /\ lsbDecoded' = StegDecode(lsbCur)
    /\ UNCHANGED <<lsbData, lsbSize, lsbMessage, lsbCur, lsbEncoded, lsbHas, rwVars, capVars, unitVars>>

\* Steganography.hasHiddenData on the current buffer
LsbHasHiddenData ==
    /\ ~lsbHas.run
    /\ lsbHas' = [run |-> TRUE, result |-> hasHiddenData(lsbCur)]
    /\ UNCHANGED <<lsbData, lsbSize, lsbMessage, lsbCur, lsbEncoded, lsbDecoded, rwVars, capVars, unitVars>>

LsbNext == LsbEncode \/ LsbDecode \/ LsbHasHiddenData

SpecLSB == LsbInit /\ [][LsbNext]_vars

----------------------------------------------------------------------------
(* Properties of the LSB codec *)

\* Number of non-alpha bytes of an RGBA buffer
NonAlphaCount(data) == Len(data) - (Len(data) \div 4)

\* LSB of the r-th (r >= 1) non-alpha byte
NonAlphaLsb(data, r) == data[4 * ((r - 1) \div 3) + ((r - 1) % 3) + 1] % 2

\* Bit k (1 = most significant) of the w-bit big-endian field holding n < 2^31
FieldBit(n, w, k) == IF w - k > 30 THEN 0 ELSE (n \div (2^(w - k))) % 2

\* The frame the LSB codec is specified to write: magic, length, message
ExpectedFrame(message) ==
    [k \in 1..(48 + 16 * Len(message)) |->
        IF k <= 16 THEN FieldBit(MAGIC_NUMBER, 16, k)
        ELSE IF k <= 48 THEN FieldBit(16 * Len(message), 32, k - 16)
        ELSE FieldBit(message[((k - 49) \div 16) + 1], 16, ((k - 49) % 16) + 1)]

\* The first 16 non-alpha LSBs spell 0xCAFE
HasMagicHeader(data) ==
    /\ NonAlphaCount(data) >= 16
    /\ \A k \in 1..16 : NonAlphaLsb(data, k) = FieldBit(MAGIC_NUMBER, 16, k)

\* Value of the length field: the non-alpha LSBs 17..48 (as many as the buffer
\* has) read as a big-endian number, Saturate standing for 2^30 and more
RECURSIVE LengthField(_, _)
LengthField(data, n) ==
    IF n = 0 THEN 0
    ELSE LET v == LengthField(data, n - 1)
         IN  IF v >= Saturate THEN Saturate
             ELSE Min2(Saturate, 2 * v + NonAlphaLsb(data, 16 + n))

LengthBits(data) == Min2(32, NonAlphaCount(data) - 16)

IsAscii(str) == \A k \in 1..Len(str) : str[k] \in 0..127

\* C1: LSB round trip: whenever encode accepted an ASCII message, decoding the
\* encoded buffer returns exactly that message.
C1_LsbRoundTrip ==
    (lsbEncoded.run /\ ~lsbEncoded.threw /\ lsbDecoded.run /\ IsAscii(lsbMessage))
        => (~lsbDecoded.null /\ lsbDecoded.str = lsbMessage)

\* C6: encode throws exactly when ceil((48 + 16*len)/3) exceeds the pixel
\* count, and when it does not throw the output carries every bit of the frame
\* (magic, length, message) in its first non-alpha LSBs.
C6_EncodeCapacity ==
    lsbEncoded.run =>
        /\ lsbEncoded.threw <=>
              (CeilDiv(48 + 16 * Len(lsbMessage), 3) > Len(lsbData) \div 4)
        /\ ~lsbEncoded.threw =>
              /\ NonAlphaCount(lsbEncoded.data) >= 48 + 16 * Len(lsbMessage)
              /\ \A k \in 1..(48 + 16 * Len(lsbMessage)) :
                    NonAlphaLsb(lsbEncoded.data, k) = ExpectedFrame(lsbMessage)[k]

\* C6 witness: a two-character message was accepted by encode and written
C6_Witness ==
    /\ lsbEncoded.run
    /\ ~lsbEncoded.threw
    /\ Len(lsbMessage) = 2
    /\ Len(lsbData) = 4 * 27

\* C7: decode returns null when the magic field is not 0xCAFE and when the
\* length field is <= 0 or > 100000; it returns a string only when the magic
\* matches and the length field is in 1..100000.
C7_DecodeGuards ==
    lsbDecoded.run =>
        (lsbDecoded.null <=>
            \/ ~HasMagicHeader(lsbCur)
            \/ LengthField(lsbCur, LengthBits(lsbCur)) <= 0
            \/ LengthField(lsbCur, LengthBits(lsbCur)) > 100000)

\* C7 witness: a buffer with the magic header was rejected for its length field
C7_Witness ==
    /\ lsbDecoded.run
    /\ lsbDecoded.null
    /\ HasMagicHeader(lsbCur)
    /\ LengthField(lsbCur, LengthBits(lsbCur)) > 100000

\* C8: hasHiddenData is true exactly when the first 16 non-alpha LSBs spell
\* 0xCAFE, whatever follows them, and it is true for every output of encode.
C8_HasHiddenData ==
    lsbHas.run =>
        /\ lsbHas.result <=> HasMagicHeader(lsbCur)
        /\ (lsbEncoded.run /\ ~lsbEncoded.threw) => lsbHas.result

\* C8 witness: hasHiddenData answered true for a buffer decode rejects
C8_Witness ==
    /\ lsbHas.run
    /\ lsbHas.result
    /\ lsbDecoded.run
    /\ lsbDecoded.null

----------------------------------------------------------------------------
(* RobustWatermark configuration, src/unnamed/part_004:22-40 *)

EMBED_STRENGTH == 15

BLOCK_SIZE == 8

REDUNDANCY == 4

MAGIC == <<1, 0, 1, 0, 1, 1, 0, 0, 1, 1, 0, 1, 0, 1, 0, 1>>

\* ECC_LEVEL = 0.5 as the fraction ECC_NUM / ECC_DEN
ECC_NUM == 1

ECC_DEN == 2

\* The array with the entries of f, each evaluated once
toArray(f) == f \o <<>>

\* A value JavaScript leaves undefined (a read past the end of an array)
Undefined == 0 - 2

----------------------------------------------------------------------------
(* GaloisField and ReedSolomon, src/unnamed/part_004:46-146 *)

\* a ^ b on bytes
Xor8(a, b) ==
      ((a + b) % 2)
    + 2 * (((a \div 2) + (b \div 2)) % 2)
    + 4 * (((a \div 4) + (b \div 4)) % 2)
    + 8 * (((a \div 8) + (b \div 8)) % 2)
    + 16 * (((a \div 16) + (b \div 16)) % 2)
    + 32 * (((a \div 32) + (b \div 32)) % 2)
    + 64 * (((a \div 64) + (b \div 64)) % 2)
    + 128 * (((a \div 128) + (b \div 128)) % 2)

\* primePoly = 0x11D; x ^= primePoly for 256 <= x < 512
PRIME_POLY == 285

\* x <<= 1; if (x >= 256) x ^= primePoly
gfDouble(x) ==
    IF 2 * x >= 256 THEN Xor8(2 * x - 256, PRIME_POLY - 256) ELSE 2 * x

\* Loops longer than this are evaluated in runs of Chunk steps, which keeps
\* the depth of the recursion that evaluates them small
Chunk == 32

\* The constructor's first loop (lines 54-59) from st.i, at most n steps;
\* the tables hold index k at entry k + 1
RECURSIVE gfFillRun(_, _)
gfFillRun(st, n) ==
    IF n = 0 \/ ~(st.i < 255) THEN st
    ELSE gfFillRun([expTable |-> [st.expTable EXCEPT ![st.i + 1] = st.x],
                    logTable |-> [st.logTable EXCEPT ![st.x + 1] = st.i],
                    x |-> gfDouble(st.x),
                    i |-> st.i + 1], n - 1)

RECURSIVE gfFill(_)
gfFill(st) == IF ~(st.i < 255) THEN st ELSE gfFill(gfFillRun(st, Chunk))

\* The constructor's second loop (lines 60-62)
RECURSIVE gfWrapRun(_, _)
gfWrapRun(st, n) ==
    IF n = 0 \/ ~(st.i < 512) THEN st
    ELSE gfWrapRun([st EXCEPT !.expTable[st.i + 1] = st.expTable[st.i - 255 + 1],
                              !.i = st.i + 1], n - 1)

RECURSIVE gfWrap(_)
gfWrap(st) == IF ~(st.i < 512) THEN st ELSE gfWrap(gfWrapRun(st, Chunk))

\* new GaloisField()
GaloisField ==
    gfWrap([gfFill([expTable |-> Zeros(512), logTable |-> Zeros(256),
                    x |-> 1, i |-> 0]) EXCEPT !.i = 255])

\* expTable[0..511] (index i is entry i + 1)
expTable == GaloisField.expTable

\* logTable[0..255] (index x is entry x + 1); logTable[0] stays 0
logTable == GaloisField.logTable

\* expTable[i] as JavaScript reads it: undefined past the end
expAt(i) == IF i < 512 THEN expTable[i + 1] ELSE Undefined

\* GaloisField.multiply; an undefined operand makes the table read undefined
gfMultiply(a, b) ==
    IF a = 0 \/ b = 0 THEN 0
    ELSE IF a = Undefined \/ b = Undefined THEN Undefined
    ELSE expTable[logTable[a + 1] + logTable[b + 1] + 1]

\* A divide that adds the logarithms, as multiply does
gfDivide_M(a, b) ==
    IF b = 0 THEN [threw |-> TRUE, value |-> Undefined]
    ELSE IF a = 0 THEN [threw |-> FALSE, value |-> 0]
    ELSE [threw |-> FALSE,
          value |-> expTable[((logTable[a + 1] + logTable[b + 1]) % 255) + 1]]

\* GaloisField.divide: throws 'Division by zero' when b is 0
gfDivide(a, b) ==
    IF b = 0 THEN [threw |-> TRUE, value |-> Undefined]
    ELSE IF a = 0 THEN [threw |-> FALSE, value |-> 0]
    ELSE [threw |-> FALSE,
          value |-> expTable[((logTable[a + 1] + 255 - logTable[b + 1]) % 255) + 1]]

\* x ^ y where y may be undefined (ToInt32(undefined) = 0)
xorJs(x, y) == IF y = Undefined THEN x ELSE Xor8(x, y)

\* One pass of createGenerator's outer loop: g times (x + expTable[i])
genStep(g, i) ==
    toArray([m \in 1..(Len(g) + 1) |->
        xorJs(IF m <= Len(g) THEN gfMultiply(g[m], 1) ELSE 0,
              IF m >= 2 THEN gfMultiply(g[m - 1], expAt(i)) ELSE 0)])

\* createGenerator's outer loop from st.i, at most n steps
RECURSIVE generatorRun(_, _, _)
generatorRun(st, nsym, n) ==
    IF n = 0 \/ ~(st.i < nsym) THEN st
    ELSE generatorRun([g |-> genStep(st.g, st.i), i |-> st.i + 1], nsym, n - 1)

RECURSIVE generatorLoop(_, _)
generatorLoop(st, nsym) ==
    IF ~(st.i < nsym) THEN st ELSE generatorLoop(generatorRun(st, nsym, Chunk), nsym)

\* A generator with the roots expTable[1] .. expTable[nsym]
createGenerator_M(nsym) == generatorLoop([g |-> <<1>>, i |-> 1], nsym + 1).g

\* createGenerator(nsym): the product of (x + expTable[i]) for i < nsym,
\* highest power first
createGenerator(nsym) == generatorLoop([g |-> <<1>>, i |-> 0], nsym).g

\* A constructor that rejects a code without parity symbols
ReedSolomon_M(nsym) ==
    [threw |-> nsym = 0, nsym |-> nsym, generator |-> createGenerator(nsym)]

\* new ReedSolomon(nsym): no statement of the constructor throws
ReedSolomon(nsym) ==
    [threw |-> FALSE, nsym |-> nsym, generator |-> createGenerator(nsym)]

\* The inner loop of ReedSolomon.encode at position i (0-based)
rsEncodeStep(encoded, i, generator) ==
    LET coef == encoded[i + 1]
    IN  IF coef = 0 THEN encoded
        ELSE toArray([m \in 1..Len(encoded) |->
                 IF m - 1 >= i /\ m - 1 - i < Len(generator)
                 THEN Xor8(encoded[m], gfMultiply(generator[m - i], coef))
                 ELSE encoded[m]])

\* The outer loop of ReedSolomon.encode from st.i, at most n steps
RECURSIVE rsEncodeRun(_, _, _, _)
rsEncodeRun(st, dataLen, generator, n) ==
    IF n = 0 \/ ~(st.i < dataLen) THEN st
    ELSE rsEncodeRun([encoded |-> rsEncodeStep(st.encoded, st.i, generator),
                      i |-> st.i + 1], dataLen, generator, n - 1)

RECURSIVE rsEncodeLoop(_, _, _)
rsEncodeLoop(st, dataLen, generator) ==
    IF ~(st.i < dataLen) THEN st
    ELSE rsEncodeLoop(rsEncodeRun(st, dataLen, generator, Chunk), dataLen, generator)

\* Array.prototype.slice(start), 0 <= start
sliceFrom(data, start) == SubSeq(data, start + 1, Len(data))

\* An encode that returns the remainder of the division as it stands
rsEncode_M(data, rs) ==
    rsEncodeLoop([encoded |-> data \o Zeros(rs.nsym), i |-> 0],
                 Len(data), rs.generator).encoded

\* rs.encode(data): the data bytes followed by the nsym parity bytes
rsEncode(data, rs) ==
    data \o sliceFrom(rsEncodeLoop([encoded |-> data \o Zeros(rs.nsym), i |-> 0],
                                   Len(data), rs.generator).encoded, Len(data))

\* Array.prototype.slice(0, end), a negative end counting from the back
sliceTo(data, end) ==
    SubSeq(data, 1, IF end < 0 THEN Max2(0, Len(data) + end) ELSE Min2(end, Len(data)))

\* calculateSyndromes' inner loop from st.j, at most n steps
RECURSIVE syndromeRun(_, _, _, _)
syndromeRun(st, data, i, n) ==
    IF n = 0 \/ ~(st.j < Len(data)) THEN st
    ELSE syndromeRun([syn |-> Xor8(gfMultiply(st.syn, expAt(i)), data[st.j + 1]),
                      j |-> st.j + 1], data, i, n - 1)

RECURSIVE syndromeLoop(_, _, _)
syndromeLoop(st, data, i) ==
    IF ~(st.j < Len(data)) THEN st
    ELSE syndromeLoop(syndromeRun(st, data, i, Chunk), data, i)

\* Syndrome i: Horner evaluation of the word at expTable[i]
syndrome(data, i) == syndromeLoop([syn |-> 0, j |-> 0], data, i).syn

calculateSyndromes(data, nsym) ==
    toArray([i \in 1..nsym |-> syndrome(data, i - 1)])

\* syndromes.every(s => s === 0)
allZero(syndromes) == \A i \in 1..Len(syndromes) : syndromes[i] = 0

\* A decoder that gives up on a word it cannot correct
rsDecode_M(data, rs) ==
    IF allZero(calculateSyndromes(data, rs.nsym))
    THEN [threw |-> FALSE, bytes |-> sliceTo(data, Len(data) - rs.nsym)]
    ELSE [threw |-> TRUE, bytes |-> <<>>]

\* rs.decode(data): both branches return the word without its last nsym
\* bytes; no statement of it throws
rsDecode(data, rs) ==
    IF allZero(calculateSyndromes(data, rs.nsym))
    THEN [threw |-> FALSE, bytes |-> sliceTo(data, Len(data) - rs.nsym)]
    ELSE [threw |-> FALSE, bytes |-> sliceTo(data, Len(data) - rs.nsym)]

----------------------------------------------------------------------------
(* SeededRNG, src/unnamed/part_004:152-184.                                 *)
(* A seed is kept as <<hi, lo>> = hi * 2^16 + lo, since seed * 1103515245   *)
(* does not fit 32 bits; the product and the sum are IEEE doubles in the    *)
(* code and are rounded to 53 significant bits here as there.               *)

seedValue(seed) == seed[1] * 65536 + seed[2]

\* hashString's loop: hash = ((hash << 5) - hash) + char, kept mod 2^32
RECURSIVE hashLoop(_, _)
hashLoop(str, st) ==
    IF ~(st.i < Len(str)) THEN st.hash
    ELSE LET t == 31 * st.hash[2] + str[st.i + 1]
             u == 31 * st.hash[1] + (t \div 65536)
         IN  hashLoop(str, [hash |-> <<u % 65536, t % 65536>>, i |-> st.i + 1])

\* Math.abs of the int32 held mod 2^32
absInt32(hash) ==
    IF hash[1] < 32768 THEN hash
    ELSE IF hash[2] = 0 THEN <<65536 - hash[1], 0>>
    ELSE <<65535 - hash[1], 65536 - hash[2]>>

hashString(str) == absInt32(hashLoop(str, [hash |-> <<0, 0>>, i |-> 0]))

\* Spacing of the doubles around hi * 2^31 (1 below 2^53)
RECURSIVE ulp(_)
ulp(hi) == IF hi < 2^22 THEN 1 ELSE 2 * ulp(hi \div 2)

\* Integer arithmetic, which keeps every bit of the product and of the sum
roundTo_M(hi, lo, p) == <<hi, lo>>

\* hi * 2^31 + lo rounded to a multiple of the spacing p, ties to even
roundTo(hi, lo, p) ==
    IF ~(2 * (lo % p) > p \/ (2 * (lo % p) = p /\ (lo \div p) % 2 = 1))
    THEN <<hi, lo - (lo % p)>>
    ELSE IF lo - (lo % p) >= (2^30 - p) + 2^30
    THEN <<hi + 1, (lo - (lo % p)) - ((2^30 - p) + 2^30)>>
    ELSE <<hi, (lo - (lo % p)) + p>>

\* hi * 2^31 + lo rounded to the nearest double, ties to even
roundDouble(hi, lo) == roundTo(hi, lo, ulp(hi))

LCG_ADD == 12345

\* 1103515245 = LCG_MUL_HI * 2^16 + LCG_MUL_LO
LCG_MUL_HI == 16838

LCG_MUL_LO == 20077

\* The partial products a * 2^32 + b * 2^16 + c as the double hi * 2^31 + lo,
\* mid being the carry column (b % 2^15) + (c >> 16)
productOf(a, b, c, mid) ==
    roundDouble(2 * a + (b \div 32768) + (mid \div 32768),
                (mid % 32768) * 65536 + (c % 65536))

\* this.seed * 1103515245
timesMultiplier(seed) ==
    productOf(seed[1] * LCG_MUL_HI,
              seed[1] * LCG_MUL_LO + seed[2] * LCG_MUL_HI,
              seed[2] * LCG_MUL_LO,
              ((seed[1] * LCG_MUL_LO + seed[2] * LCG_MUL_HI) % 32768)
                  + ((seed[2] * LCG_MUL_LO) \div 65536))

\* prod + 12345, before the sum is rounded
plusIncrement(prod) ==
    IF prod[2] >= (2^30 - LCG_ADD) + 2^30
    THEN <<prod[1] + 1, prod[2] - ((2^30 - LCG_ADD) + 2^30)>>
    ELSE <<prod[1], prod[2] + LCG_ADD>>

\* The double d rounded, & 0x7FFFFFFF, as a seed
maskSeed(d) ==
    <<roundDouble(d[1], d[2])[2] \div 65536, roundDouble(d[1], d[2])[2] % 65536>>

\* The seed after one next(): (seed * 1103515245 + 12345) & 0x7FFFFFFF
nextSeed(seed) == maskSeed(plusIncrement(timesMultiplier(seed)))

\* next() > 0.5 for the seed next() left: seed / 0x7FFFFFFF > 0.5
aboveHalf(seed) == seed[1] >= 16384

\* Math.floor(next() * n) for the seed next() left, n = max - min + 1 <= 2^12:
\* floor(seed * n / (2^31 - 1))
floorScaled(seed, n) ==
    LET t == seed[2] * n
        u == seed[1] * n + (t \div 65536)
        hi == u \div 32768
        lo == (u % 32768) * 65536 + (t % 65536)
    IN  hi + (IF lo >= ((2^30 - 1) + 2^30) - hi THEN 1 ELSE 0)

\* A range one too wide
nextInt_M(seed, min, max) == floorScaled(seed, max - min + 2) + min

\* nextInt(min, max) with the seed next() left
nextInt(seed, min, max) == floorScaled(seed, max - min + 1) + min

\* result with entries i and j (0-based) exchanged; j past the end grows it
swap(result, i, j) ==
    IF j < Len(result)
    THEN [result EXCEPT ![i + 1] = result[j + 1], ![j + 1] = result[i + 1]]
    ELSE Append([result EXCEPT ![i + 1] = Undefined], result[i + 1])

\* One pass of shuffle's loop, s the seed its nextInt leaves
shuffleStep(st, s) ==
    [array |-> swap(st.array, st.i, nextInt(s, 0, st.i)),
     seed |-> s,
     draws |-> st.draws + 1,
     i |-> st.i - 1]

\* shuffle's loop (lines 178-181) from st.i down, at most n steps; draws
\* counts the next() calls made
RECURSIVE shuffleRun(_, _)
shuffleRun(st, n) ==
    IF n = 0 \/ ~(st.i > 0) THEN st
    ELSE shuffleRun(shuffleStep(st, nextSeed(st.seed)), n - 1)

RECURSIVE shuffleLoop(_)
shuffleLoop(st) == IF ~(st.i > 0) THEN st ELSE shuffleLoop(shuffleRun(st, Chunk))

\* rng.shuffle(array) with the seed before it: the shuffled array, the seed
\* it leaves and the number of next() calls
shuffle(array, seed) ==
    shuffleLoop([array |-> array, seed |-> seed, draws |-> 0, i |-> Len(array) - 1])

----------------------------------------------------------------------------
(* Message encoding, src/unnamed/part_004:264-327 *)

\* (n >> k) & 1
bitAt(n, k) == (n \div (2^k)) % 2

stringToBits(str) ==
    toArray([m \in 1..(16 + 16 * Len(str)) |->
        IF m <= 16 THEN bitAt(Len(str), 16 - m)
        ELSE bitAt(str[((m - 17) \div 16) + 1], 15 - ((m - 17) % 16))])

\* The 16 bits from bit offset (0-based) read as a number
word16(bits, offset) ==
    LET b(k) == IF bits[offset + k] > 0 THEN 1 ELSE 0
    IN    32768 * b(1) + 16384 * b(2) + 8192 * b(3) + 4096 * b(4)
        + 2048 * b(5) + 1024 * b(6) + 512 * b(7) + 256 * b(8)
        + 128 * b(9) + 64 * b(10) + 32 * b(11) + 16 * b(12)
        + 8 * b(13) + 4 * b(14) + 2 * b(15) + b(16)

MAX_MESSAGE == 1000

bitsToString(bits) ==
    IF Len(bits) < 16 THEN [null |-> TRUE, str |-> <<>>]
    ELSE LET length == word16(bits, 0)
         IN  IF length <= 0 \/ length > MAX_MESSAGE \/ Len(bits) < 16 + length * 16
             THEN [null |-> TRUE, str |-> <<>>]
             ELSE [null |-> FALSE,
                   str |-> SelectSeq([i \in 1..length |-> word16(bits, 16 * i)],
                                     LAMBDA code : code > 0 /\ code < 65536)]

bitsToBytes(bits) ==
    toArray([m \in 1..CeilDiv(Len(bits), 8) |->
          128 * (IF bits[8 * m - 7] # 0 THEN 1 ELSE 0)
        + (IF 8 * m - 6 <= Len(bits) /\ bits[8 * m - 6] # 0 THEN 64 ELSE 0)
        + (IF 8 * m - 5 <= Len(bits) /\ bits[8 * m - 5] # 0 THEN 32 ELSE 0)
        + (IF 8 * m - 4 <= Len(bits) /\ bits[8 * m - 4] # 0 THEN 16 ELSE 0)
        + (IF 8 * m - 3 <= Len(bits) /\ bits[8 * m - 3] # 0 THEN 8 ELSE 0)
        + (IF 8 * m - 2 <= Len(bits) /\ bits[8 * m - 2] # 0 THEN 4 ELSE 0)
        + (IF 8 * m - 1 <= Len(bits) /\ bits[8 * m - 1] # 0 THEN 2 ELSE 0)
        + (IF 8 * m <= Len(bits) /\ bits[8 * m] # 0 THEN 1 ELSE 0)])

bytesToBits(bytes) ==
    toArray([m \in 1..(8 * Len(bytes)) |->
        bitAt(bytes[((m - 1) \div 8) + 1], 7 - ((m - 1) % 8))])

\* encode lines 408-411: the bytes with their parity, as bits
withParity(messageBytes) ==
    bytesToBits(rsEncode(messageBytes,
                         ReedSolomon(CeilDiv(Len(messageBytes) * ECC_NUM, ECC_DEN))))

\* encode lines 404-411: magic, length-prefixed message, parity, as bits
encodedBitsOf(message) == withParity(bitsToBytes(MAGIC \o stringToBits(message)))

----------------------------------------------------------------------------
(* DCT and embedding arithmetic, src/unnamed/part_004:190-258.              *)
(* The code computes in IEEE doubles.  Here a luminance or a coefficient is *)
(* an integer number of 1/LumaUnit grey levels, in which the luminance of   *)
(* a pixel and the embedding steps are exact, and an entry of DCT_MATRIX is *)
(* an integer number of 2^-28; a product is rounded to the nearest unit.    *)

LumaUnit == 125 * 1000

\* DCT_MATRIX[u][i] (row u + 1, column i + 1), times 2^28
DCT_MATRIX == <<
    <<94906266, 94906266, 94906266, 94906266, 94906266, 94906266, 94906266, 94906266>>,
    <<131638772, 111597962, 74567374, 26184580, -26184580, -74567374, -111597962, -131638772>>,
    <<124001012, 51362901, -51362901, -124001012, -124001012, -51362901, 51362901, 124001012>>,
    <<111597962, -26184580, -131638772, -74567374, 74567374, 131638772, 26184580, -111597962>>,
    <<94906266, -94906266, -94906266, 94906266, 94906266, -94906266, -94906266, 94906266>>,
    <<74567374, -131638772, 26184580, 111597962, -111597962, -26184580, 131638772, -74567374>>,
    <<51362901, -124001012, 124001012, -51362901, -51362901, 124001012, -124001012, 51362901>>,
    <<26184580, -74567374, 111597962, -131638772, 131638772, -111597962, 74567374, -26184580>> >>

EMBED_POSITIONS == <<
    <<0, 1>>, <<1, 0>>, <<1, 1>>, <<0, 2>>, <<2, 0>>,
    <<1, 2>>, <<2, 1>>, <<2, 2>>, <<0, 3>>, <<3, 0>>,
    <<1, 3>>, <<3, 1>>, <<2, 3>>, <<3, 2>>, <<3, 3>> >>

SECRET_KEY ==
    <<82, 101, 97, 108, 80, 105, 99, 50, 48, 50, 53, 83, 101, 99, 114, 101, 116, 75, 101, 121>>

\* a * d for a matrix entry d (in 2^-28), rounded to the nearest unit; the
\* factors are split at 2^14 to keep every product within 32 bits
timesEntry(a, d) ==
    LET x == IF a < 0 THEN 0 - a ELSE a
        y == IF d < 0 THEN 0 - d ELSE d
        x1 == x \div 16384
        x0 == x % 16384
        y1 == y \div 16384
        y0 == y % 16384
        r == x1 * y1 + ((x1 * y0 + x0 * y1 + ((x0 * y0) \div 16384) + 8192) \div 16384)
    IN  IF (a < 0) = (d < 0) THEN r ELSE 0 - r

Sum8(f) == f[0] + f[1] + f[2] + f[3] + f[4] + f[5] + f[6] + f[7]

Sum15(f) ==
      f[1] + f[2] + f[3] + f[4] + f[5] + f[6] + f[7] + f[8]
    + f[9] + f[10] + f[11] + f[12] + f[13] + f[14] + f[15]

\* dct2d(block)[u][v]; block holds yBlock[i][j] at entry 8 * i + j + 1
dct2d(block, u, v) ==
    Sum8([i \in 0..7 |->
        Sum8([j \in 0..7 |->
            timesEntry(timesEntry(block[8 * i + j + 1], DCT_MATRIX[u + 1][i + 1]),
                       DCT_MATRIX[v + 1][j + 1])])])

\* idct2d(dctBlock)[i][j] - yBlock[i][j] when dctBlock is dct2d(yBlock) with
\* changes[p] added at EMBED_POSITIONS[p]: the transform is linear and
\* orthonormal, so the untouched coefficients give back yBlock and each
\* change adds its own term of the sum of line 232
idct2dDiff(changes, i, j) ==
    Sum15([p \in 1..15 |->
        timesEntry(timesEntry(changes[p], DCT_MATRIX[EMBED_POSITIONS[p][1] + 1][i + 1]),
                   DCT_MATRIX[EMBED_POSITIONS[p][2] + 1][j + 1])])

\* Math.round(x / step) * step on units
roundToStep(x, step) == ((x + step \div 2) \div step) * step

\* diff * w / 1000 (w = 299, 587, 114) to the nearest unit
weighted(diff, w) ==
    LET x == IF diff < 0 THEN 0 - diff ELSE diff
        r == (x \div 1000) * w + (((x % 1000) * w + 500) \div 1000)
    IN  IF diff < 0 THEN 0 - r ELSE r

\* The store into the Uint8ClampedArray of Math.max(0, Math.min(255, v)):
\* the nearest byte, a tie going to the even one
toUint8Clamped(v) ==
    LET c == Max2(0, Min2(255 * LumaUnit, v))
        q == c \div LumaUnit
        r == c % LumaUnit
    IN  IF 2 * r < LumaUnit THEN q
        ELSE IF 2 * r > LumaUnit THEN q + 1
        ELSE IF q % 2 = 0 THEN q ELSE q + 1

\* options.key || CONFIG.SECRET_KEY
keyOrDefault(key) == IF key = <<>> THEN SECRET_KEY ELSE key

\* A block grid that counts the partial block at the edge
blocksAlong_M(n) == CeilDiv(n, BLOCK_SIZE)

\* Math.floor(width / CONFIG.BLOCK_SIZE)
blocksAlong(n) == n \div BLOCK_SIZE

\* Array.from({ length: totalBlocks }, (_, i) => i)
blockIndices(totalBlocks) == toArray([k \in 1..totalBlocks |-> k - 1])

\* The byte index of pixel (px, py)
pixelIndex(image, px, py) == (py * image.width + px) * 4

\* The luminance of the pixel at byte index idx of data
luminance(data, idx) ==
    (data[idx + 1] * 299 + data[idx + 2] * 587 + data[idx + 3] * 114) * (LumaUnit \div 1000)

\* The 8x8 luminance block at (blockX, blockY), lines 441-455 and 547-560
extractBlock(image, data, blockX, blockY) ==
    toArray([m \in 1..64 |->
        LET px == blockX + ((m - 1) % 8)
            py == blockY + ((m - 1) \div 8)
        IN  IF px < image.width /\ py < image.height
            THEN luminance(data, pixelIndex(image, px, py))
            ELSE 0])

----------------------------------------------------------------------------
(* RobustWatermark.encode, src/unnamed/part_004:394-515.                    *)
(* An image is [width, height, data], data the RGBA bytes (byte index idx   *)
(* is entry idx + 1).                                                       *)

\* rng.next() > 0.5 ? 1 : -1 for the seed s that next() left, draws being
\* the number of next() calls made for it
spreadAt(s, draws) ==
    [seed |-> s, value |-> IF aboveHalf(s) THEN 1 ELSE -1, draws |-> draws]

\* rng.next() > 0.5 ? 1 : -1 of line 467, with the seed it leaves and the
\* number of next() calls
embedSpread(seed) == spreadAt(nextSeed(seed), 1)

\* Lines 463-475 for one slot: bit is encodedBits[dataBitIdx], spread the
\* draw of line 467 and coef dctBlock[u][v] before the slot is written
embedSlot(st, bit, spread, coef) ==
    [seed |-> spread.seed,
     bitIndex |-> st.bitIndex + 1,
     posIdx |-> st.posIdx + 1,
     changes |-> Append(st.changes,
                        roundToStep(coef, EMBED_STRENGTH * 2 * LumaUnit)
                          + (IF bit # 0 THEN 1 ELSE -1) * spread.value
                                * EMBED_STRENGTH * LumaUnit
                          - coef),
     signs |-> Append(st.signs, spread.value),
     draws |-> st.draws + spread.draws]

\* The loop of lines 461-476 over the block's coefficient slots; changes[p]
\* is what the loop adds to the coefficient at EMBED_POSITIONS[p]
RECURSIVE embedLoop(_, _, _)
embedLoop(st, yBlock, encodedBits) ==
    IF ~(st.posIdx < Len(EMBED_POSITIONS)) THEN st
    ELSE embedLoop(embedSlot(st,
                             encodedBits[(st.bitIndex % Len(encodedBits)) + 1],
                             embedSpread(st.seed),
                             dct2d(yBlock, EMBED_POSITIONS[st.posIdx + 1][1],
                                   EMBED_POSITIONS[st.posIdx + 1][2])),
                   yBlock, encodedBits)

\* A write-back that treats the fourth byte of the pixel as a channel too
writePixel_M(data, idx, diff) ==
    [data EXCEPT
        ![idx + 1] = toUint8Clamped(data[idx + 1] * LumaUnit + weighted(diff, 299)),
        ![idx + 2] = toUint8Clamped(data[idx + 2] * LumaUnit + weighted(diff, 587)),
        ![idx + 3] = toUint8Clamped(data[idx + 3] * LumaUnit + weighted(diff, 114)),
        ![idx + 4] = toUint8Clamped(data[idx + 4] * LumaUnit + diff)]

\* Lines 487-495 for one pixel: the change of luminance spread over R, G, B
writePixel(data, idx, diff) ==
    [data EXCEPT
        ![idx + 1] = toUint8Clamped(data[idx + 1] * LumaUnit + weighted(diff, 299)),
        ![idx + 2] = toUint8Clamped(data[idx + 2] * LumaUnit + weighted(diff, 587)),
        ![idx + 3] = toUint8Clamped(data[idx + 3] * LumaUnit + weighted(diff, 114))]

\* The inner loop of lines 483-497 over the columns of row i
RECURSIVE writeRow(_, _, _, _, _, _)
writeRow(st, image, blockX, blockY, changes, i) ==
    IF ~(st.j < 8) THEN st
    ELSE LET px == blockX + st.j
             py == blockY + i
         IN  writeRow([data |-> IF px < image.width /\ py < image.height
                                THEN writePixel(st.data, pixelIndex(image, px, py),
                                                idct2dDiff(changes, i, st.j))
                                ELSE st.data,
                       j |-> st.j + 1],
                      image, blockX, blockY, changes, i)

\* The loop of lines 482-498 over the rows of the block
RECURSIVE writeBack(_, _, _, _, _)
writeBack(st, image, blockX, blockY, changes) ==
    IF ~(st.i < 8) THEN st
    ELSE writeBack([data |-> writeRow([data |-> st.data, j |-> 0],
                                      image, blockX, blockY, changes, st.i).data,
                    i |-> st.i + 1],
                   image, blockX, blockY, changes)

\* The pixels of the block at (blockX, blockY) that pass the guard
\* px < width && py < height, as byte indices
blockPixels(image, blockX, blockY) ==
    {pixelIndex(image, blockX + j, blockY + i) : 
        <<i, j>> \in {ij \in (0..7) \X (0..7) :
                         blockX + ij[2] < image.width /\ blockY + ij[1] < image.height}}

\* A test for the end of a copy that misses a copy ending inside a block
copyDone_M(bitIndex, encodedBits) == bitIndex = Len(encodedBits)

\* bitIndex >= encodedBits.length of line 501
copyDone(bitIndex, encodedBits) == bitIndex >= Len(encodedBits)

\* Lines 478-504 for the block at (blockX, blockY), embedded being the
\* state the slot loop left.  slotBit and slotCopy keep, for every slot
\* written, the dataBitIdx of line 463 and the redundancyCount at the time
blockWritten(st, image, encodedBits, blockX, blockY, embedded) ==
    [data |-> writeBack([data |-> st.data, i |-> 0],
                        image, blockX, blockY, embedded.changes).data,
     seed |-> embedded.seed,
     bitIndex |-> IF copyDone(embedded.bitIndex, encodedBits) THEN 0
                  ELSE embedded.bitIndex,
     redundancyCount |-> IF copyDone(embedded.bitIndex, encodedBits)
                         THEN st.redundancyCount + 1
                         ELSE st.redundancyCount,
     blockIdx |-> st.blockIdx + 1,
     signs |-> st.signs \o embedded.signs,
     slotBit |-> st.slotBit \o [k \in 1..Len(embedded.signs) |->
                                   (st.bitIndex + k - 1) % Len(encodedBits)],
     slotCopy |-> st.slotCopy \o [k \in 1..Len(embedded.signs) |-> st.redundancyCount],
     draws |-> embedded.draws,
     touched |-> st.touched \cup blockPixels(image, blockX, blockY)]

\* Lines 441-476 and on for the block at (blockX, blockY)
encodeBlockAt(st, image, encodedBits, blockX, blockY) ==
    blockWritten(st, image, encodedBits, blockX, blockY,
        embedLoop([seed |-> st.seed, bitIndex |-> st.bitIndex, posIdx |-> 0,
                   changes |-> <<>>, signs |-> <<>>, draws |-> st.draws],
                  extractBlock(image, st.data, blockX, blockY), encodedBits))

\* One pass of the block loop of lines 435-505
encodeBlock(st, image, shuffledBlocks, encodedBits, blockCols) ==
    encodeBlockAt(st, image, encodedBits,
                  (shuffledBlocks[st.blockIdx + 1] % blockCols) * BLOCK_SIZE,
                  (shuffledBlocks[st.blockIdx + 1] \div blockCols) * BLOCK_SIZE)

\* The block loop of lines 435-505 from st.blockIdx, at most n passes
RECURSIVE encodeRun(_, _, _, _, _, _)
encodeRun(st, image, shuffledBlocks, encodedBits, blockCols, n) ==
    IF n = 0 \/ ~(st.blockIdx < Len(shuffledBlocks) /\ st.redundancyCount < REDUNDANCY)
    THEN st
    ELSE encodeRun(encodeBlock(st, image, shuffledBlocks, encodedBits, blockCols),
                   image, shuffledBlocks, encodedBits, blockCols, n - 1)

RECURSIVE encodeLoop(_, _, _, _, _)
encodeLoop(st, image, shuffledBlocks, encodedBits, blockCols) ==
    IF ~(st.blockIdx < Len(shuffledBlocks) /\ st.redundancyCount < REDUNDANCY)
    THEN st
    ELSE encodeLoop(encodeRun(st, image, shuffledBlocks, encodedBits, blockCols, Chunk),
                    image, shuffledBlocks, encodedBits, blockCols)

\* Lines 507-514: what encode leaves, final being the state after the block
\* loop
encodeResult(image, key, encodedBits, totalBlocks, shuffled, final) ==
    [run |-> TRUE,
     threw |-> FALSE,
     key |-> keyOrDefault(key),
     data |-> final.data,
     width |-> image.width,
     height |-> image.height,
     distinct |-> Uint8ClampedArray(image.data).own,
     input |-> callerData(image.data, Uint8ClampedArray(image.data), final.data),
     encodedBits |-> encodedBits,
     totalBlocks |-> totalBlocks,
     warned |-> CeilDiv(Len(encodedBits) * REDUNDANCY, Len(EMBED_POSITIONS)) > totalBlocks,
     redundancyCount |-> final.redundancyCount,
     bitsEmbedded |-> Len(encodedBits) * Min2(final.redundancyCount + 1, REDUNDANCY),
     order |-> SubSeq(shuffled.array, 1, final.blockIdx),
     signs |-> final.signs,
     slotBit |-> final.slotBit,
     slotCopy |-> final.slotCopy,
     shuffleDraws |-> shuffled.draws,
     slotDraws |-> final.draws,
     touched |-> final.touched]

\* Lines 426-505: the block loop over the shuffled block order
encodeBlocks(image, key, encodedBits, totalBlocks, shuffled) ==
    encodeResult(image, key, encodedBits, totalBlocks, shuffled,
        encodeLoop([data |-> Uint8ClampedArray(image.data).data, seed |-> shuffled.seed, bitIndex |-> 0,
                    redundancyCount |-> 0, blockIdx |-> 0, signs |-> <<>>,
                    slotBit |-> <<>>, slotCopy |-> <<>>,
                    draws |-> 0, touched |-> {}],
                   image, shuffled.array, encodedBits, blocksAlong(image.width)))

\* RobustWatermark.encode(imageData, message, {key}).  data is the output
\* image; order, signs, shuffleDraws and slotDraws record the use of the
\* generator: the blocks visited in turn, the spread value of every slot
\* written, and the next() calls of the shuffle and of the slots.  No
\* statement of encode throws; the perceptualHash field is not modelled.
RobustEncode(image, message, key) ==
    encodeBlocks(image, key, encodedBitsOf(message),
                 blocksAlong(image.width) * blocksAlong(image.height),
                 shuffle(blockIndices(blocksAlong(image.width) * blocksAlong(image.height)),
                         hashString(keyOrDefault(key))))

----------------------------------------------------------------------------
(* RobustWatermark.decode, src/unnamed/part_004:521-644 *)

\* A decoder that draws twice per slot
extractSpread_M(seed) == spreadAt(nextSeed(nextSeed(seed)), 2)

\* rng.next() > 0.5 ? 1 : -1 of line 571, with the seed it leaves and the
\* number of next() calls
extractSpread(seed) == spreadAt(nextSeed(seed), 1)

\* Lines 567-576 for one slot: coef is dctBlock[u][v] and spread the draw
\* of line 571; correlation is coef * spreadValue
extractSlot(st, spread, coef) ==
    [seed |-> spread.seed,
     posIdx |-> st.posIdx + 1,
     bits |-> Append(st.bits, IF coef * spread.value > 0 THEN 1 ELSE 0),
     scores |-> Append(st.scores, IF coef * spread.value < 0
                                  THEN 0 - coef * spread.value
                                  ELSE coef * spread.value),
     signs |-> Append(st.signs, spread.value),
     draws |-> st.draws + spread.draws]

\* The loop of lines 566-577 over the block's coefficient slots
RECURSIVE extractLoop(_, _)
extractLoop(st, yBlock) ==
    IF ~(st.posIdx < Len(EMBED_POSITIONS)) THEN st
    ELSE extractLoop(extractSlot(st, extractSpread(st.seed),
                                 dct2d(yBlock, EMBED_POSITIONS[st.posIdx + 1][1],
                                       EMBED_POSITIONS[st.posIdx + 1][2])),
                     yBlock)

\* Lines 562-577 for the block at (blockX, blockY), extracted being the
\* state the slot loop left
blockRead(st, image, blockX, blockY, extracted) ==
    [seed |-> extracted.seed,
     blockIdx |-> st.blockIdx + 1,
     extractedBits |-> st.extractedBits \o extracted.bits,
     confidenceScores |-> st.confidenceScores \o extracted.scores,
     signs |-> st.signs \o extracted.signs,
     draws |-> extracted.draws,
     touched |-> st.touched \cup blockPixels(image, blockX, blockY)]

\* Lines 547-577 for the block at (blockX, blockY)
decodeBlockAt(st, image, blockX, blockY) ==
    blockRead(st, image, blockX, blockY,
        extractLoop([seed |-> st.seed, posIdx |-> 0, bits |-> <<>>,
                     scores |-> <<>>, signs |-> <<>>, draws |-> st.draws],
                    extractBlock(image, image.data, blockX, blockY)))

\* One pass of the block loop of lines 541-578
decodeBlock(st, image, shuffledBlocks, blockCols) ==
    decodeBlockAt(st, image,
                  (shuffledBlocks[st.blockIdx + 1] % blockCols) * BLOCK_SIZE,
                  (shuffledBlocks[st.blockIdx + 1] \div blockCols) * BLOCK_SIZE)

\* The block loop of lines 541-578 from st.blockIdx, at most n passes
RECURSIVE decodeRun(_, _, _, _, _)
decodeRun(st, image, shuffledBlocks, blockCols, n) ==
    IF n = 0 \/ ~(st.blockIdx < Len(shuffledBlocks)) THEN st
    ELSE decodeRun(decodeBlock(st, image, shuffledBlocks, blockCols),
                   image, shuffledBlocks, blockCols, n - 1)

RECURSIVE decodeLoop(_, _, _, _)
decodeLoop(st, image, shuffledBlocks, blockCols) ==
    IF ~(st.blockIdx < Len(shuffledBlocks)) THEN st
    ELSE decodeLoop(decodeRun(st, image, shuffledBlocks, blockCols, Chunk),
                    image, shuffledBlocks, blockCols)

\* votes[bit] after the loop of lines 588-595 for voted bit i (0-based),
\* from copy r on
RECURSIVE votes(_, _, _, _, _, _)
votes(bit, i, r, bitsPerCopy, extractedBits, confidenceScores) ==
    IF ~(r < REDUNDANCY) THEN 0
    ELSE LET idx == r * bitsPerCopy + i
         IN  (IF idx < Len(extractedBits) /\ extractedBits[idx + 1] = bit
              THEN confidenceScores[idx + 1] ELSE 0)
             + votes(bit, i, r + 1, bitsPerCopy, extractedBits, confidenceScores)

\* A vote that a tie decides for 1
majorityVote_M(extractedBits, confidenceScores) ==
    LET bitsPerCopy == Len(extractedBits) \div REDUNDANCY
    IN  toArray([m \in 1..bitsPerCopy |->
            IF votes(1, m - 1, 0, bitsPerCopy, extractedBits, confidenceScores)
                 >= votes(0, m - 1, 0, bitsPerCopy, extractedBits, confidenceScores)
            THEN 1 ELSE 0])

\* Lines 581-598: the weighted majority vote over the redundant copies
majorityVote(extractedBits, confidenceScores) ==
    LET bitsPerCopy == Len(extractedBits) \div REDUNDANCY
    IN  toArray([m \in 1..bitsPerCopy |->
            IF votes(1, m - 1, 0, bitsPerCopy, extractedBits, confidenceScores)
                 > votes(0, m - 1, 0, bitsPerCopy, extractedBits, confidenceScores)
            THEN 1 ELSE 0])

\* Lines 601-606
magicMatches(votedBits) ==
    Cardinality({i \in 1..Min2(Len(MAGIC), Len(votedBits)) : votedBits[i] = MAGIC[i]})

\* A threshold of 0.8
belowThreshold_M(magicMatch) == magicMatch * 10 < 8 * Len(MAGIC)

\* magicConfidence < 0.7, the confidence being magicMatch / MAGIC.length
belowThreshold(magicMatch) == magicMatch * 10 < 7 * Len(MAGIC)

\* magicConfidence > 0.7
aboveThreshold(magicMatch) == magicMatch * 10 > 7 * Len(MAGIC)

\* Lines 626-643: the try block around rs.decode and its catch block,
\* decoded being what rs.decode(messageBytes) does
decodeWith(messageBits, magicMatch, rs, decoded) ==
    IF rs.threw
    THEN [threw |-> TRUE, rsFailed |-> FALSE, found |-> FALSE,
          message |-> [null |-> TRUE, str |-> <<>>]]
    ELSE IF ~decoded.threw
    THEN [threw |-> FALSE, rsFailed |-> FALSE, found |-> TRUE,
          message |-> bitsToString(bytesToBits(decoded.bytes))]
    ELSE [threw |-> FALSE, rsFailed |-> TRUE, found |-> aboveThreshold(magicMatch),
          message |-> bitsToString(messageBits)]

\* Line 627 with the decoder rs of line 623
decodeCoded(messageBits, magicMatch, messageBytes, rs) ==
    decodeWith(messageBits, magicMatch, rs, rsDecode(messageBytes, rs))

\* Lines 619-624: the decoder built for the bytes read
decodeBytes(messageBits, magicMatch, messageBytes) ==
    decodeCoded(messageBits, magicMatch, messageBytes,
                ReedSolomon(CeilDiv(Len(messageBytes) * ECC_NUM, ECC_DEN + ECC_NUM)))

\* Lines 618-643: the message of a signature that passed the threshold
decodeMessage(votedBits, magicMatch) ==
    decodeBytes(sliceFrom(votedBits, Len(MAGIC)), magicMatch,
                bitsToBytes(sliceFrom(votedBits, Len(MAGIC))))

\* The object decode returns (lines 609-616 and 628-642), tail being the
\* outcome of the signature test and of the message decoding
decodeResult(key, totalBlocks, shuffled, final, votedBits, magicMatch, tail) ==
    [run |-> TRUE,
     threw |-> tail.threw,
     rsFailed |-> tail.rsFailed,
     key |-> keyOrDefault(key),
     found |-> tail.found,
     confidence |-> [num |-> magicMatch, den |-> Len(MAGIC)],
     message |-> tail.message,
     votedBits |-> votedBits,
     totalBlocks |-> totalBlocks,
     order |-> SubSeq(shuffled.array, 1, final.blockIdx),
     signs |-> final.signs,
     shuffleDraws |-> shuffled.draws,
     slotDraws |-> final.draws,
     touched |-> final.touched]

\* Lines 608-643: the signature test and what follows it
decodeVerdict(key, totalBlocks, shuffled, final, votedBits, magicMatch) ==
    decodeResult(key, totalBlocks, shuffled, final, votedBits, magicMatch,
        IF belowThreshold(magicMatch)
        THEN [threw |-> FALSE, rsFailed |-> FALSE, found |-> FALSE,
              message |-> [null |-> TRUE, str |-> <<>>]]
        ELSE decodeMessage(votedBits, magicMatch))

\* Lines 600-606: the signature compared
decodeVoted(key, totalBlocks, shuffled, final, votedBits) ==
    decodeVerdict(key, totalBlocks, shuffled, final, votedBits, magicMatches(votedBits))

\* Lines 580-598: the vote over what the block loop read
decodeRead(key, totalBlocks, shuffled, final) ==
    decodeVoted(key, totalBlocks, shuffled, final,
                majorityVote(final.extractedBits, final.confidenceScores))

\* Lines 533-578: the block loop over the shuffled block order
decodeBlocks(image, key, totalBlocks, shuffled) ==
    decodeRead(key, totalBlocks, shuffled,
        decodeLoop([seed |-> shuffled.seed, blockIdx |-> 0, extractedBits |-> <<>>,
                    confidenceScores |-> <<>>, signs |-> <<>>, draws |-> 0,
                    touched |-> {}],
                   image, shuffled.array, blocksAlong(image.width)))

\* RobustWatermark.decode(imageData, {key}).  confidence is magicMatch /
\* MAGIC.length as the pair [num, den]; threw tells that an exception left
\* the function; order, signs, shuffleDraws, slotDraws and touched are as
\* in RobustEncode.
RobustDecode(image, key) ==
    decodeBlocks(image, key, blocksAlong(image.width) * blocksAlong(image.height),
                 shuffle(blockIndices(blocksAlong(image.width) * blocksAlong(image.height)),
                         hashString(keyOrDefault(key))))

----------------------------------------------------------------------------
(* SpecRW: RobustWatermark.encode and decode called on small images *)

\* Largest number of whole blocks across and down a textured image
MaxBlockCols == 2

MaxBlockRows == 2

\* Number of textures per size
RwPatterns == 1

\* Widths and heights: below one block, whole blocks, and blocks with a
\* remainder
RwWidths == {4} \cup {8 * c : c \in 1..MaxBlockCols} \cup {8 * c + 3 : c \in 1..MaxBlockCols}

RwHeights == {7} \cup {8 * r : r \in 1..MaxBlockRows}

\* An opaque image whose channels vary from pixel to pixel
TexturedImage(w, h, pat) ==
    [width |-> w, height |-> h,
     data |-> toArray([k \in 1..(4 * w * h) |->
         LET c == (k - 1) % 4
             x == ((k - 1) \div 4) % w
             y == ((k - 1) \div 4) \div w
         IN  IF c = 3 THEN 255
             ELSE 96 + ((3 * x * x + 5 * y * y + 7 * x * y + 11 * c + 13 * pat) % 64)])]

\* An opaque uniform gray (128, 128, 128) image
GrayImage(w, h) ==
    [width |-> w, height |-> h,
     data |-> toArray([k \in 1..(4 * w * h) |-> IF (k - 1) % 4 = 3 THEN 255 ELSE 128])]

\* Every pixel of the image equals its first one
Flat(image) ==
    \A k \in 1..Len(image.data) : image.data[k] = image.data[((k - 1) % 4) + 1]

\* "hi"
MessageHi == <<104, 105>>

\* "test"
KeyTest == <<116, 101, 115, 116>>

\* "k"
KeyK == <<107>>

\* "Aa"
KeyAa == <<65, 97>>

\* "BB"
KeyBB == <<66, 66>>

RwMessages == {<<>>, MessageHi}

\* Keys of the encode call: "test" and none (the default key)
RwKeys == {KeyTest, <<>>}

RwScenarios ==
    {[image |-> TexturedImage(w, h, pat), message |-> m, key |-> k] :
        w \in RwWidths, h \in RwHeights, pat \in 1..RwPatterns,
        m \in RwMessages, k \in RwKeys}
    \cup {[image |-> GrayImage(64, 64), message |-> MessageHi, key |-> KeyTest],
          [image |-> GrayImage(56, 32), message |-> MessageHi, key |-> KeyTest],
          [image |-> GrayImage(56, 32), message |-> MessageHi, key |-> KeyAa],
          [image |-> GrayImage(16, 16), message |-> <<>>, key |-> KeyK]}

RwInit ==
    /\ \E sc \in RwScenarios :
          /\ rwImage = sc.image
          /\ rwMessage = sc.message
          /\ rwKey = sc.key
    /\ rwCur = rwImage.data
    /\ rwEnc = NotRun
    /\ rwDec = NotRun
    /\ LsbIdle
    /\ CapIdle
    /\ UnitsIdle

\* RobustWatermark.encode(rwImage, rwMessage, {key: rwKey}); the caller goes
\* on with the image it returns
RwEncode ==
    /\ ~rwEnc.run
    /\ ~rwDec.run
    /\ rwEnc' = RobustEncode(rwImage, rwMessage, rwKey)
    /\ rwCur' = rwEnc'.data
    /\ rwImage' = [rwImage EXCEPT !.data = rwEnc'.input]
    /\ UNCHANGED <<rwMessage, rwKey, rwDec, lsbVars, capVars, unitVars>>

\* RobustWatermark.decode of the current pixels, with the key of the encode
\* call or with another one.  The coefficients of a uniform block the
\* encoder has not written are rounding residue in the code (of the order of
\* 1e-13), whose signs the arithmetic here does not reproduce: the calls
\* whose verdict they would decide, on a uniform image never encoded or with
\* another generator seed, are left out.
RwDecode ==
    /\ ~rwDec.run
    /\ \E key \in {rwKey, KeyK, KeyBB} :
          /\ Flat(rwImage) =>
                 /\ rwEnc.run
                 /\ hashString(keyOrDefault(key)) = hashString(keyOrDefault(rwKey))
          /\ rwDec' = RobustDecode([rwImage EXCEPT !.data = rwCur], key)
    /\ UNCHANGED <<rwImage, rwMessage, rwKey, rwCur, rwEnc, lsbVars, capVars, unitVars>>

RwNext == RwEncode \/ RwDecode

SpecRW == RwInit /\ [][RwNext]_vars

----------------------------------------------------------------------------
(* SpecCapacity: the bit counts of RobustWatermark.encode and decode on     *)
(* images of 400x400 pixels and more, which are too large to follow pixel   *)
(* by pixel.  Only the lengths of the arrays of lines 404-429 and 581-628   *)
(* are kept; they do not depend on the pixel values.                        *)

\* Sides of the images
CapSides == {400, 404, 408, 640, 648}

\* Message lengths
CapLengths == {1, 2, 389, 390, 1000}

\* encodedBits.length for a message of the given length (lines 405-411)
encodedLength(length) ==
    LET messageBits == Len(MAGIC) + 16 + 16 * length
        messageBytes == CeilDiv(messageBits, 8)
        nsym == CeilDiv(messageBytes * ECC_NUM, ECC_DEN)
    IN  8 * (messageBytes + nsym)

\* The counts of encode, lines 404-429
encodeCounts(size, length) ==
    LET totalBlocks == blocksAlong(size[1]) * blocksAlong(size[2])
        totalBits == encodedLength(length) * REDUNDANCY
        blocksNeeded == CeilDiv(totalBits, Len(EMBED_POSITIONS))
    IN  [run |-> TRUE,
         encodedBits |-> encodedLength(length),
         totalBlocks |-> totalBlocks,
         blocksNeeded |-> blocksNeeded,
         warned |-> blocksNeeded > totalBlocks]

\* The counts of decode, lines 529-628 and 282-292: maxLength is the largest
\* length field bitsToString accepts for the decoded bits, so the longest
\* string decode can return
decodeCounts(size) ==
    LET totalBlocks == blocksAlong(size[1]) * blocksAlong(size[2])
        extractedBits == totalBlocks * Len(EMBED_POSITIONS)
        bitsPerCopy == extractedBits \div REDUNDANCY
        messageBits == Max2(0, bitsPerCopy - Len(MAGIC))
        messageBytes == CeilDiv(messageBits, 8)
        nsym == CeilDiv(messageBytes * ECC_NUM, ECC_DEN + ECC_NUM)
        decodedBits == 8 * (messageBytes - nsym)
    IN  [run |-> TRUE,
         votedBits |-> bitsPerCopy,
         messageBytes |-> messageBytes,
         nsym |-> nsym,
         decodedBits |-> decodedBits,
         maxLength |-> IF decodedBits < 16 THEN 0
                       ELSE Min2(MAX_MESSAGE, (decodedBits - 16) \div 16)]

CapInit ==
    /\ capSize \in CapSides \X CapSides
    /\ capLength \in CapLengths
    /\ capEnc = NotRun
    /\ capDec = NotRun
    /\ LsbIdle
    /\ RwIdle
    /\ UnitsIdle

\* RobustWatermark.encode on the image
CapEncode ==
    /\ ~capEnc.run
    /\ capEnc' = encodeCounts(capSize, capLength)
    /\ UNCHANGED <<capSize, capLength, capDec, lsbVars, rwVars, unitVars>>

\* RobustWatermark.decode on the image encode returned
CapDecode ==
    /\ capEnc.run
    /\ ~capDec.run
    /\ capDec' = decodeCounts(capSize)
    /\ UNCHANGED <<capSize, capLength, capEnc, lsbVars, rwVars, unitVars>>

CapNext == CapEncode \/ CapDecode

SpecCapacity == CapInit /\ [][CapNext]_vars

----------------------------------------------------------------------------
(* SpecSlot: one coefficient slot, written as lines 467-473 write it and    *)
(* read as lines 568-575 read it, the coefficient coming back unchanged     *)

\* Largest coefficient, in steps of CoefStep
MaxCoefSteps == 20

\* 2.5 grey levels
CoefStep == (5 * LumaUnit) \div 2

SlotCoefs == {k * CoefStep : k \in (0 - MaxCoefSteps)..MaxCoefSteps}

\* rng.next() > 0.5 ? 1 : -1 when it is spreadValue
spreadOf(spreadValue) == [seed |-> <<0, 0>>, value |-> spreadValue, draws |-> 1]

\* dctBlock[u][v] after line 473, coef being its value before
writtenCoefficient(coef, bit, spreadValue) ==
    coef + embedSlot([seed |-> <<0, 0>>, bitIndex |-> 0, posIdx |-> 0,
                      changes |-> <<>>, signs |-> <<>>, draws |-> 0],
                     bit, spreadOf(spreadValue), coef).changes[1]

\* The bit line 575 pushes for the coefficient coef
readBit(coef, spreadValue) ==
    extractSlot([seed |-> <<0, 0>>, posIdx |-> 0, bits |-> <<>>, scores |-> <<>>,
                 signs |-> <<>>, draws |-> 0],
                spreadOf(spreadValue), coef).bits[1]

SlotInit ==
    /\ \E c \in SlotCoefs, b \in {0, 1}, sv \in {1, -1} :
          slotIn = [coef |-> c, bit |-> b, spreadValue |-> sv]
    /\ slotWritten = NotRun
    /\ slotRead = NotRun
    /\ LsbIdle
    /\ RwIdle
    /\ CapIdle
    /\ GalIdle
    /\ SrvIdle
    /\ VoteIdle
    /\ GfIdle
    /\ RngIdle
    /\ RsIdle
    /\ PhIdle

\* The encoder's pass over the slot
SlotEmbed ==
    /\ ~slotWritten.run
    /\ slotWritten' = [run |-> TRUE,
                       coef |-> writtenCoefficient(slotIn.coef, slotIn.bit,
                                                   slotIn.spreadValue)]
    /\ UNCHANGED <<slotIn, slotRead, lsbVars, rwVars, capVars, rngVars, rsVars, hashVars,
                   gfVars, voteVars, srvVars, galVars>>

\* The decoder's pass over the slot the encoder wrote
SlotExtract ==
    /\ slotWritten.run
    /\ ~slotRead.run
    /\ slotRead' = [run |-> TRUE, bit |-> readBit(slotWritten.coef, slotIn.spreadValue)]
    /\ UNCHANGED <<slotIn, slotWritten, lsbVars, rwVars, capVars, rngVars, rsVars, hashVars,
                   gfVars, voteVars, srvVars, galVars>>

SlotNext == SlotEmbed \/ SlotExtract

SpecSlot == SlotInit /\ [][SlotNext]_vars

----------------------------------------------------------------------------
(* SpecRNG: a SeededRNG built from a key and called a few times *)

\* Largest number of calls on one generator
MaxCalls == 3

\* Longest array shuffled
MaxShuffle == 5

\* "3KE3>J0", whose hash is 230538014: the seed s with
\* (s * 1103515245 + 12345) mod 2^31 = 2^31 - 1
KeyEdge == <<51, 75, 69, 51, 62, 74, 48>>

\* "I<F;H@", whose hash is -2^31
KeyMin == <<73, 60, 70, 59, 72, 64>>

RngKeys == {KeyTest, KeyK, KeyAa, SECRET_KEY, KeyEdge, KeyMin}

\* The (min, max) arguments of nextInt
RngRanges == {<<0, 0>>, <<0, 1>>, <<0, 7>>, <<3, 9>>, <<0, 4095>>}

\* new SeededRNG(key)
RngInit ==
    /\ \E key \in RngKeys : rngSeed = hashString(key)
    /\ rngCalls = 0
    /\ rngOut = NotRun
    /\ LsbIdle
    /\ RwIdle
    /\ CapIdle
    /\ GalIdle
    /\ SrvIdle
    /\ VoteIdle
    /\ GfIdle
    /\ SlotIdle
    /\ RsIdle
    /\ PhIdle

\* rng.next(): the value returned is seed / 0x7FFFFFFF
RngNext ==
    /\ rngCalls < MaxCalls
    /\ rngSeed' = nextSeed(rngSeed)
    /\ rngCalls' = rngCalls + 1
    /\ rngOut' = [run |-> TRUE, op |-> "next", from |-> rngSeed, seed |-> rngSeed']
    /\ UNCHANGED <<lsbVars, rwVars, capVars, slotVars, rsVars, hashVars, gfVars,
                   voteVars, srvVars, galVars>>

\* rng.nextInt(min, max)
RngNextInt ==
    /\ rngCalls < MaxCalls
    /\ rngSeed' = nextSeed(rngSeed)
    /\ rngCalls' = rngCalls + 1
    /\ \E range \in RngRanges :
          rngOut' = [run |-> TRUE, op |-> "nextInt", min |-> range[1], max |-> range[2],
                     value |-> nextInt(rngSeed', range[1], range[2])]
    /\ UNCHANGED <<lsbVars, rwVars, capVars, slotVars, rsVars, hashVars, gfVars,
                   voteVars, srvVars, galVars>>

\* rng.shuffle([0, ..., n - 1])
RngShuffle ==
    /\ rngCalls < MaxCalls
    /\ \E n \in 0..MaxShuffle :
          /\ rngSeed' = shuffle(blockIndices(n), rngSeed).seed
          /\ rngOut' = [run |-> TRUE, op |-> "shuffle", input |-> blockIndices(n),
                        array |-> shuffle(blockIndices(n), rngSeed).array]
    /\ rngCalls' = rngCalls + 1
    /\ UNCHANGED <<lsbVars, rwVars, capVars, slotVars, rsVars, hashVars, gfVars,
                   voteVars, srvVars, galVars>>

RngStep == RngNext \/ RngNextInt \/ RngShuffle

SpecRNG == RngInit /\ [][RngStep]_vars

----------------------------------------------------------------------------
(* SpecRS: ReedSolomon.encode on short byte arrays *)

\* Longest byte array encoded
MaxRsLen == 2

\* Largest parity count
MaxNsym == 3

RsBytes == {0, 1, 2, 142, 255}

RsData == UNION {{toArray(f) : f \in [1..n -> RsBytes]} : n \in 0..MaxRsLen}

RsInit ==
    /\ \E data \in RsData, nsym \in 0..MaxNsym : rsIn = [data |-> data, nsym |-> nsym]
    /\ rsOut = NotRun
    /\ rsRecv = NotRun
    /\ LsbIdle
    /\ RwIdle
    /\ CapIdle
    /\ GalIdle
    /\ SrvIdle
    /\ VoteIdle
    /\ GfIdle
    /\ SlotIdle
    /\ RngIdle
    /\ PhIdle

\* new ReedSolomon(nsym).encode(data)
RsEncode ==
    /\ ~rsOut.run
    /\ rsOut' = [run |-> TRUE, encoded |-> rsEncode(rsIn.data, ReedSolomon(rsIn.nsym))]
    /\ UNCHANGED <<rsIn, rsRecv, lsbVars, rwVars, capVars, slotVars, rngVars, hashVars,
                   gfVars, voteVars, srvVars, galVars>>

\* rs.encode(data) on the result of the first call
RsEncodeAgain ==
    /\ rsOut.run
    /\ ~rsRecv.run
    /\ Len(rsOut.encoded) <= MaxRsLen + MaxNsym
    /\ Len(rsIn.data) < Len(rsOut.encoded)
    /\ rsIn' = [data |-> rsOut.encoded, nsym |-> rsIn.nsym]
    /\ rsOut' = [run |-> TRUE, encoded |-> rsEncode(rsOut.encoded, ReedSolomon(rsIn.nsym))]
    /\ UNCHANGED <<rsRecv, lsbVars, rwVars, capVars, slotVars, rngVars, hashVars,
                   gfVars, voteVars, srvVars, galVars>>

\* The words handed to the decoder: the encoded word, the word with one byte
\* replaced, and the word cut short; line 622 makes nsym at most the length
\* of the word
receivedWords(encoded, nsym) ==
    {encoded}
    \cup {[encoded EXCEPT ![pos] = v] : pos \in 1..Len(encoded), v \in RsBytes}
    \cup {sliceTo(encoded, k) : k \in nsym..Len(encoded)}

\* rs.calculateSyndromes(received) and rs.decode(received), rs the encoder
RsReceive ==
    /\ rsOut.run
    /\ ~rsRecv.run
    /\ \E received \in receivedWords(rsOut.encoded, rsIn.nsym) :
          rsRecv' = [run |-> TRUE,
                     received |-> received,
                     syndromes |-> calculateSyndromes(received, rsIn.nsym),
                     decoded |-> rsDecode(received, ReedSolomon(rsIn.nsym))]
    /\ UNCHANGED <<rsIn, rsOut, lsbVars, rwVars, capVars, slotVars, rngVars, hashVars,
                   gfVars, voteVars, srvVars, galVars>>

RsNext == RsEncode \/ RsEncodeAgain \/ RsReceive

SpecRS == RsInit /\ [][RsNext]_vars

----------------------------------------------------------------------------
(* SpecVote: the majority vote of lines 580-598 on short arrays of          *)
(* extracted bits and confidence scores                                     *)

\* Longest array of extracted bits, every bit and score chosen freely
MaxVoteLen == 5

\* Confidence scores: a score of 3 ties with the scores 1 and 2 together
VoteScores == {0, 1, 3}

\* Arrays of two bits per copy, and of two bits per copy and one bit over
VoteLonger ==
    {[bits |-> <<1, 0, 0, 0, 1, 1, 0, 1>>, scores |-> <<3, 1, 1, 0, 1, 1, 1, 1>>],
     [bits |-> <<1, 1, 0, 1, 0, 1, 1, 0, 1>>, scores |-> <<1, 0, 1, 0, 3, 0, 1, 3, 3>>],
     [bits |-> <<0, 1, 1, 0, 1, 0, 0, 1, 0>>, scores |-> <<1, 1, 1, 1, 1, 1, 1, 1, 3>>]}

VoteInit ==
    /\ \/ \E n \in 0..MaxVoteLen :
             \E bits \in [1..n -> {0, 1}], scores \in [1..n -> VoteScores] :
                 voteIn = [bits |-> toArray(bits), scores |-> toArray(scores)]
       \/ voteIn \in VoteLonger
    /\ voteOut = NotRun
    /\ LsbIdle
    /\ RwIdle
    /\ CapIdle
    /\ GalIdle
    /\ SrvIdle
    /\ SlotIdle
    /\ RngIdle
    /\ RsIdle
    /\ PhIdle
    /\ GfIdle

\* Lines 581-598 on the bits and scores the block loop collected
VoteCount ==
    /\ ~voteOut.run
    /\ voteOut' = [run |-> TRUE, votedBits |-> majorityVote(voteIn.bits, voteIn.scores)]
    /\ UNCHANGED <<voteIn, lsbVars, rwVars, capVars, slotVars, rngVars, rsVars, hashVars, gfVars,
                   srvVars, galVars>>

VoteNext == VoteCount

SpecVote == VoteInit /\ [][VoteNext]_vars

----------------------------------------------------------------------------
(* SpecHash: computePerceptualHash and verifyPerceptualHash. Luminance is   *)
(* held in thousandths of a grey level and cosines in units of 1 / CosUnit  *)

\* const SIZE = 32 of line 337
SIZE == 32

\* One, in the unit the cosines are held in
CosUnit == 4096

\* CosUnit * cos(k * PI / 64) for k = 0 .. 32
QuarterWave ==
    <<4096, 4091, 4076, 4052, 4017, 3973, 3920, 3857, 3784, 3703, 3612,
      3513, 3406, 3290, 3166, 3035, 2896, 2751, 2598, 2440, 2276, 2106,
      1931, 1751, 1567, 1380, 1189, 995, 799, 601, 401, 201, 0>>

\* CosUnit * cos(k * PI / 64) for k in 0 .. 64
halfWave(k) == IF k <= SIZE THEN QuarterWave[k + 1] ELSE 0 - QuarterWave[2 * SIZE - k + 1]

\* Math.cos((2 * i + 1) * u * Math.PI / (2 * SIZE)) in units of 1 / CosUnit
cosOf(i, u) ==
    IF ((2 * i + 1) * u) % (4 * SIZE) <= 2 * SIZE
    THEN halfWave(((2 * i + 1) * u) % (4 * SIZE))
    ELSE halfWave(4 * SIZE - (((2 * i + 1) * u) % (4 * SIZE)))

\* Math.floor(x * scaleX) with scaleX = width / SIZE
cellStart(x, width) == (x * width) \div SIZE

\* data[idx] * 0.299 + data[idx + 1] * 0.587 + data[idx + 2] * 0.114
grayOf(data, idx) == data[idx + 1] * 299 + data[idx + 2] * 587 + data[idx + 3] * 114

\* The sum of line 354 over px in startX .. endX - 1 of row py
RECURSIVE rowSum(_, _, _, _)
rowSum(image, py, px, endX) ==
    IF px >= endX THEN 0
    ELSE grayOf(image.data, (py * image.width + px) * 4) + rowSum(image, py, px + 1, endX)

\* The sum of lines 350-357 over the rows py .. endY - 1
RECURSIVE cellSum(_, _, _, _, _)
cellSum(image, py, endY, startX, endX) ==
    IF py >= endY THEN 0
    ELSE rowSum(image, py, startX, endX) + cellSum(image, py + 1, endY, startX, endX)

\* gray[y * SIZE + x] of line 358
grayCell(image, x, y) ==
    IF (cellStart(x + 1, image.width) - cellStart(x, image.width))
         * (cellStart(y + 1, image.height) - cellStart(y, image.height)) > 0
    THEN cellSum(image, cellStart(y, image.height), cellStart(y + 1, image.height),
                 cellStart(x, image.width), cellStart(x + 1, image.width))
           \div ((cellStart(x + 1, image.width) - cellStart(x, image.width))
                   * (cellStart(y + 1, image.height) - cellStart(y, image.height)))
    ELSE 0

\* The 32x32 image of lines 343-360, row by row
grayOfImage(image) ==
    toArray([k \in 1..(SIZE * SIZE) |-> grayCell(image, (k - 1) % SIZE, (k - 1) \div SIZE)])

\* gray[i * SIZE + j] * cos(...) * cos(...) of lines 369-371
dctTerm(g, i, j, u, v) ==
    IF g = 0 THEN 0 ELSE (((g * cosOf(i, u)) \div CosUnit) * cosOf(j, v)) \div CosUnit

\* The cells of gray that are not zero, in the order the loops of lines
\* 367-368 meet them; a zero cell adds nothing to any sum
litCells(gray) == SelectSeq([k \in 1..(SIZE * SIZE) |-> k], LAMBDA k : gray[k] # 0)

\* The sum of lines 366-373 for (u, v), over the cells from the n-th on
RECURSIVE dctSum(_, _, _, _, _)
dctSum(gray, cells, n, u, v) ==
    IF n > Len(cells) THEN 0
    ELSE dctTerm(gray[cells[n]], (cells[n] - 1) \div SIZE, (cells[n] - 1) % SIZE, u, v)
           + dctSum(gray, cells, n + 1, u, v)

\* dctResult of lines 363-376 over the cells: 64 sums, u outermost
dctOver(gray, cells) ==
    toArray([k \in 1..64 |-> dctSum(gray, cells, 1, (k - 1) \div 8, (k - 1) % 8)])

\* dctResult for the 32x32 image gray
dctResultOf(gray) == dctOver(gray, litCells(gray))

\* reduce((a, b) => a + b, 0) over the array from index k on
RECURSIVE sumFrom(_, _)
sumFrom(array, k) == IF k > Len(array) THEN 0 ELSE array[k] + sumFrom(array, k + 1)

\* dctMean of line 379, rounded down
dctMean(dctResult) == sumFrom(dctResult, 2) \div (Len(dctResult) - 1)

\* A hash that keeps the DC component
hashBits_M(dctResult, mean) ==
    toArray([i \in 1..Len(dctResult) |-> IF dctResult[i] > mean THEN 1 ELSE 0])

\* hash of lines 381-384
hashBits(dctResult, mean) ==
    toArray([i \in 1..(Len(dctResult) - 1) |-> IF dctResult[i + 1] > mean THEN 1 ELSE 0])

\* dctResult and its mean, as lines 379-384 use them
hashOfDct(dctResult) == hashBits(dctResult, dctMean(dctResult))

\* computePerceptualHash(imageData)
computePerceptualHash(image) == hashOfDct(dctResultOf(grayOfImage(image)))

\* matches of lines 662-669 from index i on
RECURSIVE countMatches(_, _, _, _)
countMatches(currentHash, originalHash, i, len) ==
    IF i >= len THEN 0
    ELSE (IF currentHash[i + 1] = originalHash[i + 1] THEN 1 ELSE 0)
           + countMatches(currentHash, originalHash, i + 1, len)

\* A comparison that leaves out equality
atLeast_M(matches, len, threshold) ==
    /\ len > 0
    /\ matches * threshold[2] > threshold[1] * len

\* matches / len >= threshold for the threshold num / den; 0 / 0 is NaN
atLeast(matches, len, threshold) ==
    /\ len > 0
    /\ matches * threshold[2] >= threshold[1] * len

\* The object of lines 672-675 for matches and len
verdictOf(matches, len, threshold) ==
    [isMatch |-> atLeast(matches, len, threshold),
     similarity |-> <<matches, len>>]

\* Lines 662-675 for the hash computed at line 660
verifyHashes(currentHash, originalHash, threshold) ==
    verdictOf(countMatches(currentHash, originalHash, 0,
                           Min2(Len(currentHash), Len(originalHash))),
              Min2(Len(currentHash), Len(originalHash)), threshold)

\* verifyPerceptualHash(imageData, originalHash, threshold)
verifyPerceptualHash(image, originalHash, threshold) ==
    verifyHashes(computePerceptualHash(image), originalHash, threshold)

\* Largest side of the small images
MaxHashSide == 8

\* An image with more pixels than cells: some cells average two pixels
WideSide == SIZE + MaxHashSide

\* A black opaque image with a textured square of side lit in its corner
SpotImage(w, h, lit, pat) ==
    [width |-> w, height |-> h,
     data |-> toArray([k \in 1..(4 * w * h) |->
         LET c == (k - 1) % 4
             x == ((k - 1) \div 4) % w
             y == ((k - 1) \div 4) \div w
         IN  IF c = 3 THEN 255
             ELSE IF x >= lit \/ y >= lit THEN 0
             ELSE 40 + ((37 * x * x + 59 * y * y + 71 * x * y + 11 * c + 13 * pat) % 200)])]

HashImages ==
    {SpotImage(0, 0, 0, 1),
     SpotImage(MaxHashSide, MaxHashSide, 0, 1),
     SpotImage(MaxHashSide, MaxHashSide, MaxHashSide, 1),
     SpotImage(MaxHashSide, MaxHashSide - 3, MaxHashSide, 2),
     SpotImage(WideSide, WideSide, 7, 1)}

\* The number of leading bits of the stored hash that were changed
FlipCounts == {0, 1, 12, 13, 31, 32, 63}

\* threshold as num / den; 4 / 5 is the default 0.8
DefaultThreshold == <<4, 5>>

Thresholds == {DefaultThreshold, <<1, 2>>, <<1, 1>>, <<0, 1>>}

\* hash with its first n bits inverted
flipFirst(hash, n) == [i \in 1..Len(hash) |-> IF i <= n THEN 1 - hash[i] ELSE hash[i]]

\* An image, the hash once stored for it with some of its bits changed since,
\* and a threshold
PhInit ==
    /\ \E image \in HashImages, n \in FlipCounts, threshold \in Thresholds :
          /\ phImage = image
          /\ phStored = flipFirst(computePerceptualHash(image), n)
          /\ phThreshold = threshold
    /\ phHash = NotRun
    /\ phVerify = NotRun
    /\ LsbIdle
    /\ RwIdle
    /\ CapIdle
    /\ GalIdle
    /\ SrvIdle
    /\ VoteIdle
    /\ GfIdle
    /\ SlotIdle
    /\ RngIdle
    /\ RsIdle

\* computePerceptualHash(phImage)
PhCompute ==
    /\ ~phHash.run
    /\ phHash' = [run |-> TRUE, hash |-> computePerceptualHash(phImage)]
    /\ UNCHANGED <<phImage, phStored, phThreshold, phVerify,
                   lsbVars, rwVars, capVars, slotVars, rngVars, rsVars,
                   gfVars, voteVars, srvVars, galVars>>

\* verifyPerceptualHash(phImage, phStored, phThreshold)
PhVerify ==
    /\ ~phVerify.run
    /\ phVerify' = [run |-> TRUE,
                    result |-> verifyPerceptualHash(phImage, phStored, phThreshold)]
    /\ UNCHANGED <<phImage, phStored, phThreshold, phHash,
                   lsbVars, rwVars, capVars, slotVars, rngVars, rsVars,
                   gfVars, voteVars, srvVars, galVars>>

PhNext == PhCompute \/ PhVerify

SpecHash == PhInit /\ [][PhNext]_vars

----------------------------------------------------------------------------
(* SpecCore: the operations that are handed an image, each on the images of *)
(* its own specification above                                              *)

CoreInit == LsbInit \/ RwInit \/ PhInit

\* A part takes steps only where it is the one in use
CoreNext ==
    \/ ~LsbIdle /\ LsbNext
    \/ ~RwIdle /\ RwNext
    \/ ~PhIdle /\ PhNext

SpecCore == CoreInit /\ [][CoreNext]_vars

----------------------------------------------------------------------------
(* Properties of RobustWatermark *)

\* C2: for every message M of 1 to 1000 code units and every image of at
\* least 400x400 pixels, decode(encode(image, M, K).image, K) returns
\* message == M; decode can return M only if it can return a string as long
\* as M
C2_RobustRoundTrip ==
    (/\ capDec.run
     /\ capSize[1] >= 400
     /\ capSize[2] >= 400
     /\ capLength >= 1
     /\ capLength <= 1000)
    => capDec.maxLength >= capLength

\* C3: encoding "hi" with key "test" into the 64x64 uniform gray
\* (128, 128, 128) image (64 blocks, 96 encoded bits) and decoding the
\* result with the same key returns found = true and message "hi"
C3_GrayScenario ==
    (/\ rwImage.width = 64
     /\ rwImage.height = 64
     /\ Flat(rwImage)
     /\ rwMessage = MessageHi
     /\ rwEnc.run
     /\ rwEnc.key = KeyTest
     /\ rwDec.run
     /\ rwDec.key = KeyTest)
    => /\ rwEnc.totalBlocks = 64
       /\ Len(rwEnc.encodedBits) = 96
       /\ rwDec.found
       /\ rwDec.message = [null |-> FALSE, str |-> MessageHi]

\* C4: decode returns confidence = (number of the first 16 voted bits equal
\* to MAGIC) / 16, within [0, 1]; found is false and message null when the
\* confidence is below 0.7, and found is true when it is 0.7 or more
C4_DecodeVerdict ==
    rwDec.run =>
        /\ rwDec.confidence.den = 16
        /\ rwDec.confidence.num =
               Cardinality({i \in 1..16 : i <= Len(rwDec.votedBits)
                                          /\ rwDec.votedBits[i] = MAGIC[i]})
        /\ rwDec.confidence.num >= 0
        /\ rwDec.confidence.num <= rwDec.confidence.den
        /\ (10 * rwDec.confidence.num < 7 * rwDec.confidence.den)
               => (~rwDec.found /\ rwDec.message.null)
        /\ (10 * rwDec.confidence.num >= 7 * rwDec.confidence.den)
               => rwDec.found

\* A decode that found the signature with 12 of its 16 bits
C4_Witness ==
    /\ rwDec.run
    /\ rwDec.found
    /\ rwDec.confidence.num = 12

\* C5: encode and decode with the same key on the same image size make the
\* same next() calls: N - 1 for the shuffle of the N = floor(width / 8) *
\* floor(height / 8) block indices, then one per coefficient slot; the k-th
\* block visited and the spread value of every slot the encoder wrote are
\* the same in decode
C5_SameDraws ==
    (rwEnc.run /\ rwDec.run /\ rwDec.key = rwEnc.key) =>
        LET n == (rwImage.width \div 8) * (rwImage.height \div 8)
        IN  /\ rwEnc.shuffleDraws = Max2(n - 1, 0)
            /\ rwDec.shuffleDraws = Max2(n - 1, 0)
            /\ Len(rwEnc.order) <= n
            /\ Len(rwDec.order) = n
            /\ rwEnc.slotDraws = 15 * Len(rwEnc.order)
            /\ rwDec.slotDraws = 15 * n
            /\ Len(rwEnc.signs) = rwEnc.slotDraws
            /\ rwEnc.order = SubSeq(rwDec.order, 1, Len(rwEnc.order))
            /\ rwEnc.signs = SubSeq(rwDec.signs, 1, Len(rwEnc.signs))

\* The encoder stopped after its four copies, the decoder went on over the
\* other blocks
C5_Witness ==
    /\ rwEnc.run
    /\ rwDec.run
    /\ rwDec.key = rwEnc.key
    /\ Len(rwEnc.order) >= 2
    /\ Len(rwEnc.order) < Len(rwDec.order)

\* C9: decode lets no exception escape: it returns a record of found,
\* confidence and message for every buffer, size and key, and a failure of
\* the Reed-Solomon decoding makes it read the raw voted bits
C9_DecodeNeverThrows ==
    rwDec.run =>
        /\ ~rwDec.threw
        /\ rwDec.found \in BOOLEAN
        /\ rwDec.confidence.num \in 0..rwDec.confidence.den
        /\ rwDec.message.null \in BOOLEAN
        /\ rwDec.rsFailed =>
               rwDec.message =
                   bitsToString(SubSeq(rwDec.votedBits, Len(MAGIC) + 1, Len(rwDec.votedBits)))

\* A signature that passed the threshold over a payload that does not decode
C9_Witness ==
    /\ rwDec.run
    /\ rwDec.found
    /\ rwDec.message.null

\* C10: on an image with width < 8 or height < 8 decode returns found =
\* false and message null and reads no pixel, and encode returns without
\* error and has changed no pixel
C10_DegenerateDimensions ==
    (rwImage.width < 8 \/ rwImage.height < 8) =>
        /\ rwDec.run => (/\ ~rwDec.threw
                         /\ ~rwDec.found
                         /\ rwDec.message.null
                         /\ rwDec.touched = {})
        /\ rwEnc.run => (/\ ~rwEnc.threw
                         /\ rwEnc.data = rwImage.data
                         /\ rwEnc.touched = {})

\* Both calls made on an image narrower or lower than a block
C10_Witness ==
    /\ rwImage.width < 8 \/ rwImage.height < 8
    /\ rwImage.width > 0
    /\ rwEnc.run
    /\ rwDec.run

\* C11: encode ends without error and stops as soon as REDUNDANCY copies of
\* the encoded bits are written or the blocks are used up: it visits
\* min(totalBlocks, REDUNDANCY * ceil(encodedBits / 15)) blocks, and an
\* image too small for all the copies gets fewer copies, not a failure
C11_EncodeStops ==
    rwEnc.run =>
        /\ ~rwEnc.threw
        /\ Len(rwEnc.order) =
               Min2(rwEnc.totalBlocks,
                    REDUNDANCY * CeilDiv(Len(rwEnc.encodedBits), Len(EMBED_POSITIONS)))
        /\ (rwEnc.totalBlocks < REDUNDANCY * CeilDiv(Len(rwEnc.encodedBits),
                                                     Len(EMBED_POSITIONS)))
               => rwEnc.redundancyCount < REDUNDANCY
        /\ (rwEnc.totalBlocks >= REDUNDANCY * CeilDiv(Len(rwEnc.encodedBits),
                                                      Len(EMBED_POSITIONS)))
               => rwEnc.redundancyCount = REDUNDANCY

\* An encode that stopped after its four copies with blocks left over
C11_Witness ==
    /\ rwEnc.run
    /\ rwEnc.redundancyCount = REDUNDANCY
    /\ Len(rwEnc.order) < rwEnc.totalBlocks

\* C12: bitsEmbedded is the number of bits embedded: 0 when no block was
\* visited, at most 15 per visited block, and no more than the copies that
\* were begun hold
C12_BitsEmbedded ==
    rwEnc.run =>
        /\ (Len(rwEnc.order) = 0) => (rwEnc.bitsEmbedded = 0)
        /\ rwEnc.bitsEmbedded <= Len(EMBED_POSITIONS) * Len(rwEnc.order)
        /\ rwEnc.bitsEmbedded <=
               Len(rwEnc.encodedBits)
                   * CeilDiv(Len(rwEnc.order),
                             CeilDiv(Len(rwEnc.encodedBits), Len(EMBED_POSITIONS)))

\* C14: a key string other than the one of the encode call never leads
\* decode to the block order and the spread values the encoder used (on
\* which the verdict found = false for another key rests)
C14_KeyIndependence ==
    (rwEnc.run /\ rwDec.run /\ rwDec.key # rwEnc.key /\ Len(rwEnc.signs) > 0) =>
        /\ ~(/\ Len(rwEnc.order) <= Len(rwDec.order)
              /\ rwEnc.order = SubSeq(rwDec.order, 1, Len(rwEnc.order))
              /\ Len(rwEnc.signs) <= Len(rwDec.signs)
              /\ rwEnc.signs = SubSeq(rwDec.signs, 1, Len(rwEnc.signs)))
        /\ ~(rwDec.found /\ rwDec.message = [null |-> FALSE, str |-> rwMessage])

\* C16: for every copy r the encoder completed and every position i of the
\* encoded bits, the slot the decoder reads as copy r's vote for i, slot
\* r * floor(15 * totalBlocks / REDUNDANCY) + i, is the slot in which the
\* encoder embedded bit i of copy r
C16_CopiesLineUp ==
    (rwEnc.run /\ rwDec.run) =>
        \A r \in 0..(rwEnc.redundancyCount - 1) :
            \A i \in 0..(Len(rwEnc.encodedBits) - 1) :
                /\ r * Len(rwDec.votedBits) + i < Len(rwEnc.slotBit)
                /\ rwEnc.slotBit[r * Len(rwDec.votedBits) + i + 1] = i
                /\ rwEnc.slotCopy[r * Len(rwDec.votedBits) + i + 1] = r

\* C17: the coefficient the encoder writes for the bit b, the value
\* round(c / (2 * strength)) * (2 * strength) + (b ? 1 : -1) * s * strength,
\* is read back as b by the decoder's rule (1 iff coefficient * s > 0) when
\* it comes back unchanged
C17_SlotRecovery ==
    slotRead.run => slotRead.bit = slotIn.bit

\* C18: next() returns a value in [0, 1), never 1, that is the seed it
\* leaves is in 0 .. 2^31 - 2, and nextInt(min, max) returns an integer
\* from min to max
C18_NextInRange ==
    /\ (rngOut.run /\ rngOut.op = "next") =>
           /\ seedValue(rngOut.seed) >= 0
           /\ seedValue(rngOut.seed) < (2^30 - 1) + 2^30
    /\ (rngOut.run /\ rngOut.op = "nextInt") =>
           /\ rngOut.value >= rngOut.min
           /\ rngOut.value <= rngOut.max

\* next() called on the seed whose exact successor is 2^31 - 1
C18_Witness ==
    /\ rngOut.run
    /\ rngOut.op = "next"
    /\ rngOut.from = hashString(KeyEdge)

\* C19: shuffle returns a permutation of its input: as many entries, every
\* element of the input exactly once, none undefined
C19_ShufflePermutes ==
    (rngOut.run /\ rngOut.op = "shuffle") =>
        /\ Len(rngOut.array) = Len(rngOut.input)
        /\ \A k \in 1..Len(rngOut.input) :
               Cardinality({m \in 1..Len(rngOut.array) :
                               rngOut.array[m] = rngOut.input[k]}) = 1
        /\ \A m \in 1..Len(rngOut.array) : rngOut.array[m] # Undefined

\* A shuffle of five elements that moved some of them
C19_Witness ==
    /\ rngOut.run
    /\ rngOut.op = "shuffle"
    /\ Len(rngOut.input) = MaxShuffle
    /\ rngOut.array # rngOut.input

\* C20: encode(data) has len(data) + nsym bytes and begins with the bytes of
\* data
C20_Systematic ==
    rsOut.run =>
        /\ Len(rsOut.encoded) = Len(rsIn.data) + rsIn.nsym
        /\ SubSeq(rsOut.encoded, 1, Len(rsIn.data)) = rsIn.data

\* Two non-zero bytes encoded with parity
C20_Witness ==
    /\ rsOut.run
    /\ rsIn.nsym >= 2
    /\ Len(rsIn.data) = 2
    /\ rsIn.data[1] # 0
    /\ rsIn.data[2] # 0
    /\ rsOut.encoded # rsIn.data \o Zeros(rsIn.nsym)

\* C15: computePerceptualHash returns 63 bits; verifyPerceptualHash of an
\* image against its own hash reports similarity 1.0 and a match at the
\* default threshold; and isMatch is true exactly when the number of
\* matching bits over 63 is at least the threshold
C15_HashIdentity ==
    /\ phHash.run => Len(phHash.hash) = 63
    /\ (phHash.run /\ phVerify.run /\ phStored = phHash.hash) =>
           /\ phVerify.result.similarity[1] = phVerify.result.similarity[2]
           /\ phVerify.result.similarity[2] > 0
           /\ phThreshold = DefaultThreshold => phVerify.result.isMatch
    /\ (phHash.run /\ phVerify.run) =>
           (phVerify.result.isMatch <=>
               Cardinality({i \in 1..63 : phStored[i] = phHash.hash[i]}) * phThreshold[2]
                   >= phThreshold[1] * 63)

\* A lit image verified against its own hash at the threshold 1
C15_Witness ==
    /\ phVerify.run
    /\ phHash.run
    /\ phThreshold = <<1, 1>>
    /\ phStored = phHash.hash
    /\ \E i \in 1..Len(phStored) : phStored[i] = 1
    /\ phVerify.result.isMatch

\* C13: no operation writes to the array it is handed: after
\* RobustWatermark.encode and decode, Steganography.encode, decode and
\* hasHiddenData, and verifyPerceptualHash, every byte of the input is what
\* it was before the call; and the buffer an encoder returns is not the one
\* it was handed
C13_InputUntouched ==
    /\ [][lsbData' = lsbData /\ rwImage' = rwImage /\ phImage' = phImage]_vars
    /\ []((lsbEncoded.run /\ ~lsbEncoded.threw) => lsbEncoded.distinct)
    /\ [](rwEnc.run => rwEnc.distinct)

\* An encode that wrote other bytes than those of its input, and a decode
\* after it
C13_Witness ==
    /\ rwEnc.run
    /\ rwDec.run
    /\ rwEnc.data # rwImage.data

\* C21: the word encode produces is a codeword: calculateSyndromes of it is
\* nsym zeros, and decode of it is the data
C21_EncodeIsCodeword ==
    (rsRecv.run /\ rsRecv.received = rsOut.encoded) =>
        /\ Len(rsRecv.syndromes) = rsIn.nsym
        /\ allZero(rsRecv.syndromes)
        /\ ~rsRecv.decoded.threw
        /\ rsRecv.decoded.bytes = rsIn.data

\* The syndromes of a word with non-zero data and non-zero parity
C21_Witness ==
    /\ rsRecv.run
    /\ rsRecv.received = rsOut.encoded
    /\ rsIn.nsym >= 2
    /\ Len(rsIn.data) >= 2
    /\ \A k \in 1..Len(rsOut.encoded) : rsOut.encoded[k] # 0

C22_SameCodeword ==
    (/\ rwEnc.run
     /\ rwDec.run
     /\ rwDec.key = rwEnc.key
     /\ ~belowThreshold(rwDec.confidence.num))
    => /\ bitsToBytes(sliceFrom(rwDec.votedBits, Len(MAGIC))) = bitsToBytes(rwEnc.encodedBits)
       /\ CeilDiv(Len(bitsToBytes(sliceFrom(rwDec.votedBits, Len(MAGIC)))) * ECC_NUM,
                  ECC_DEN + ECC_NUM)
            = CeilDiv(Len(bitsToBytes(MAGIC \o stringToBits(rwMessage))) * ECC_NUM, ECC_DEN)

\* The sum of the scores of the copies of position i (0-based) that read bit
voteWeight(bit, i) ==
    LET bitsPerCopy == Len(voteIn.bits) \div REDUNDANCY
        copies == {r \in 0..(REDUNDANCY - 1) : voteIn.bits[r * bitsPerCopy + i + 1] = bit}
        score(r) == IF r \in copies THEN voteIn.scores[r * bitsPerCopy + i + 1] ELSE 0
    IN  score(0) + score(1) + score(2) + score(3)

\* C24: there is one voted bit for each position of a copy, and it is 1
\* exactly when the scores of the copies that read 1 add up to more than the
\* scores of the copies that read 0; a tie, all scores zero included,
\* gives 0
C24_WeightedVote ==
    voteOut.run =>
        /\ Len(voteOut.votedBits) = Len(voteIn.bits) \div REDUNDANCY
        /\ \A i \in 0..(Len(voteOut.votedBits) - 1) :
               /\ voteOut.votedBits[i + 1] \in {0, 1}
               /\ voteOut.votedBits[i + 1] = 1 <=> voteWeight(1, i) > voteWeight(0, i)

\* A tie between one copy of score 3 that read 1 and three copies of score 1
\* that read 0
C24_Witness ==
    /\ voteOut.run
    /\ voteIn.bits = <<1, 0, 0, 0>>
    /\ voteIn.scores = <<3, 1, 1, 1>>
    /\ voteOut.votedBits = <<0>>

\* C25: when decode returns found = true, the message it returns is not
\* null and has 1 to 1000 code units
C25_FoundHasMessage ==
    (rwDec.run /\ rwDec.found) =>
        /\ ~rwDec.message.null
        /\ Len(rwDec.message.str) >= 1
        /\ Len(rwDec.message.str) <= MAX_MESSAGE

\* C26: Steganography.encode changes only the lowest bit of the first
\* 48 + 16 * len(message) non-alpha bytes: the output has as many bytes as the
\* input, every alpha byte, the upper seven bits of every byte and every
\* byte after the frame are those of the input, and width and height are
\* the input's
C26_LsbFrame ==
    (lsbEncoded.run /\ ~lsbEncoded.threw) =>
        /\ Len(lsbEncoded.data) = Len(lsbData)
        /\ lsbEncoded.width = lsbSize[1]
        /\ lsbEncoded.height = lsbSize[2]
        /\ \A k \in 1..Len(lsbData) :
               /\ lsbEncoded.data[k] \div 2 = lsbData[k] \div 2
               /\ k % 4 = 0 => lsbEncoded.data[k] = lsbData[k]
               /\ k - (k \div 4) > 48 + 16 * Len(lsbMessage) =>
                      lsbEncoded.data[k] = lsbData[k]

\* A one-character message written into a buffer that goes on after the
\* frame, some byte of which changed
C26_Witness ==
    /\ lsbEncoded.run
    /\ ~lsbEncoded.threw
    /\ Len(lsbMessage) = 1
    /\ Len(lsbData) - (Len(lsbData) \div 4) > 48 + 16
    /\ lsbSize[2] = 2
    /\ lsbEncoded.data # lsbData

\* The block of the grid in which the pixel of byte k (1-based) of the image
\* lies, as the index shuffledBlocks holds for it
blockOfByte(image, k) ==
    ((((k - 1) \div 4) \div image.width) \div BLOCK_SIZE) * blocksAlong(image.width)
        + ((((k - 1) \div 4) % image.width) \div BLOCK_SIZE)

\* C27: encode changes only R, G and B bytes of pixels in a visited block:
\* alpha bytes, pixels outside the floor(width / 8) x floor(height / 8) grid
\* and pixels of blocks not visited are those of the input; every byte of
\* the output is in 0 .. 255; width and height are the input's
C27_RobustFrame ==
    rwEnc.run =>
        /\ Len(rwEnc.data) = Len(rwImage.data)
        /\ rwEnc.width = rwImage.width
        /\ rwEnc.height = rwImage.height
        /\ \A k \in 1..Len(rwImage.data) :
               /\ rwEnc.data[k] \in 0..255
               /\ rwEnc.data[k] # rwImage.data[k] =>
                      /\ k % 4 # 0
                      /\ ((k - 1) \div 4) % rwImage.width
                             < BLOCK_SIZE * blocksAlong(rwImage.width)
                      /\ ((k - 1) \div 4) \div rwImage.width
                             < BLOCK_SIZE * blocksAlong(rwImage.height)
                      /\ \E m \in 1..Len(rwEnc.order) :
                             rwEnc.order[m] = blockOfByte(rwImage, k)

\* An encode that changed bytes of an image with pixels outside the grid
C27_Witness ==
    /\ rwEnc.run
    /\ ~rwDec.run
    /\ rwImage.width % BLOCK_SIZE # 0
    /\ rwEnc.data # rwImage.data

\* ---------------------------------------------------------------------------
\* GaloisField.multiply and GaloisField.divide on every pair of field elements
\* ---------------------------------------------------------------------------

\* new GaloisField(): fieldSize = 256 by default
fieldSize == 256

\* The elements of the field: the values of a byte (fieldSize, line 47)
FieldElements == 0..(fieldSize - 1)

GfInit ==
    /\ gfIn \in FieldElements \X FieldElements
    /\ gfOut = NotRun
    /\ LsbIdle
    /\ RwIdle
    /\ CapIdle
    /\ GalIdle
    /\ SrvIdle
    /\ SlotIdle
    /\ RngIdle
    /\ RsIdle
    /\ PhIdle
    /\ VoteIdle

\* gf.multiply(a, b)
GfMultiply ==
    /\ ~gfOut.run
    /\ gfOut' = [run |-> TRUE, op |-> "multiply", threw |-> FALSE,
                 value |-> gfMultiply(gfIn[1], gfIn[2])]
    /\ UNCHANGED <<gfIn, lsbVars, rwVars, capVars, slotVars, rngVars, rsVars, hashVars, voteVars,
                   srvVars, galVars>>

\* gf.divide(a, b)
GfDivide ==
    /\ ~gfOut.run
    /\ gfOut' = [run |-> TRUE, op |-> "divide",
                 threw |-> gfDivide(gfIn[1], gfIn[2]).threw,
                 value |-> gfDivide(gfIn[1], gfIn[2]).value]
    /\ UNCHANGED <<gfIn, lsbVars, rwVars, capVars, slotVars, rngVars, rsVars, hashVars, voteVars,
                   srvVars, galVars>>

GfNext == GfMultiply \/ GfDivide

SpecGF == GfInit /\ [][GfNext]_vars

\* C28: divide(a, b) throws for every a when b = 0 and only then; for b # 0
\* its result is the one c in 0 .. 255 with multiply(c, b) = a; multiply(a, b)
\* is 0 exactly when a = 0 or b = 0
C28_DivideInvertsMultiply ==
    gfOut.run =>
        /\ gfOut.op = "divide" =>
               /\ gfOut.threw <=> gfIn[2] = 0
               /\ gfIn[2] # 0 =>
                      /\ gfOut.value \in FieldElements
                      /\ \A c \in FieldElements :
                             gfMultiply(c, gfIn[2]) = gfIn[1] <=> c = gfOut.value
        /\ gfOut.op = "multiply" =>
               /\ ~gfOut.threw
               /\ gfOut.value = 0 <=> (gfIn[1] = 0 \/ gfIn[2] = 0)

\* A division of two different non-zero elements, neither of them 1
C28_Witness ==
    /\ gfOut.run
    /\ gfOut.op = "divide"
    /\ gfIn = <<200, 7>>
    /\ ~gfOut.threw
    /\ gfOut.value \notin {0, 1, 200, 7}
    /\ gfMultiply(gfOut.value, 7) = 200

\* ---------------------------------------------------------------------------
\* The upload server (src/server.js): POST /api/upload and the files it keeps
\* ---------------------------------------------------------------------------

\* const MAX_IMAGES = 5
MAX_IMAGES == 5

\* The extensions getUploadedFiles lists (line 30)
IMAGE_EXTS == {".png", ".jpg", ".jpeg", ".gif", ".webp"}

\* Uploads received in a run
MaxUploads == 6

\* Uploads handled at the same time
MaxInFlight == 2

\* path.extname(file.originalname) of the images uploaded; fileFilter lets
\* every file of an image/* type through, whatever its name
UploadExts == {".png", ".bmp"}

\* getUploadedFiles: the files with a listed extension, oldest first (the
\* directory is held in the order of birthtime)
getUploadedFiles(dir) == SelectSeq(dir, LAMBDA f : f.ext \in IMAGE_EXTS)

\* The while loop of enforceImageLimit: files.shift() and unlinkSync
RECURSIVE enforceLoop(_)
enforceLoop(st) ==
    IF ~(Len(st.files) >= MAX_IMAGES) THEN st
    ELSE enforceLoop(
             [files |-> Tail(st.files),
              dir |-> SelectSeq(st.dir, LAMBDA f : f.name # Head(st.files).name),
              removed |-> Append(st.removed, Head(st.files))])

\* enforceImageLimit on a directory
enforceImageLimit(dir) ==
    enforceLoop([files |-> getUploadedFiles(dir), dir |-> dir, removed |-> <<>>])

SrvInit ==
    /\ SrvIdle
    /\ LsbIdle
    /\ RwIdle
    /\ CapIdle
    /\ SlotIdle
    /\ RngIdle
    /\ RsIdle
    /\ PhIdle
    /\ GfIdle
    /\ VoteIdle
    /\ GalIdle

\* imageStorage.destination and imageStorage.filename for one file of an
\* upload: the limit is enforced and the name chosen; the file is not in the
\* directory yet
SrvDestination ==
    /\ srvCount < MaxUploads
    /\ Cardinality(srvReqs) < MaxInFlight
    /\ \E ext \in UploadExts :
          srvReqs' = srvReqs \cup {[name |-> srvCount + 1, ext |-> ext, stage |-> "named"]}
    /\ srvCount' = srvCount + 1
    /\ srvDir' = enforceImageLimit(srvDir).dir
    /\ srvLog' = [run |-> TRUE, before |-> srvDir,
                  removed |-> enforceImageLimit(srvDir).removed]
    /\ UNCHANGED <<srvResp, lsbVars, rwVars, capVars, slotVars, rngVars, rsVars, hashVars,
                   gfVars, voteVars, galVars>>

\* The storage opens the file it writes the upload to: the file appears in
\* the directory, the youngest there
SrvOpen ==
    /\ \E r \in srvReqs :
          /\ r.stage = "named"
          /\ srvDir' = Append(srvDir, [name |-> r.name, ext |-> r.ext])
          /\ srvReqs' = (srvReqs \ {r}) \cup {[r EXCEPT !.stage = "written"]}
    /\ UNCHANGED <<srvCount, srvLog, srvResp, lsbVars, rwVars, capVars, slotVars, rngVars,
                   rsVars, hashVars, gfVars, voteVars, galVars>>

\* The handler of POST /api/upload, run when the file is written
SrvRespond ==
    /\ \E r \in srvReqs :
          /\ r.stage = "written"
          /\ srvResp' = [run |-> TRUE, filename |-> r.name,
                         imagesStored |-> Len(getUploadedFiles(srvDir))]
          /\ srvReqs' = srvReqs \ {r}
    /\ UNCHANGED <<srvDir, srvCount, srvLog, lsbVars, rwVars, capVars, slotVars, rngVars,
                   rsVars, hashVars, gfVars, voteVars, galVars>>

SrvNext == SrvDestination \/ SrvOpen \/ SrvRespond

SpecServer == SrvInit /\ [][SrvNext]_vars

\* C29: the uploads directory never holds more than MAX_IMAGES images,
\* whatever the order in which the steps of overlapping uploads run, and the
\* files enforceImageLimit deletes are the oldest files of the directory
C29_AtMostMaxImages ==
    /\ Len(srvDir) <= MAX_IMAGES
    /\ srvLog.run =>
           srvLog.removed = SubSeq(srvLog.before, 1, Len(srvLog.removed))

\* ---------------------------------------------------------------------------
\* The gallery of the page (src/app.js): photos, the photo modal and uploads
\* ---------------------------------------------------------------------------

\* Photos created in a run, those loaded from localStorage included
MaxPhotos == 4

\* Photos in localStorage when the page loads
MaxStored == 2

\* Files of one upload
MaxFiles == 2

\* Photos localStorage has room for
StorageQuota == 3

\* savePhotos: while setItem throws QuotaExceededError the last photo goes
RECURSIVE savePhotos(_)
savePhotos(list) ==
    IF Len(list) > StorageQuota THEN savePhotos(SubSeq(list, 1, Len(list) - 1))
    ELSE list

\* photos.unshift(photo)
unshift(list, photo) == <<photo>> \o list

\* photos.splice(index, 1): nothing goes when index is past the end
splice(list, index) ==
    IF index < Len(list)
    THEN SubSeq(list, 1, index) \o SubSeq(list, index + 2, Len(list))
    ELSE list

\* photos[index]
photoAt(list, index) == IF index >= 0 /\ index < Len(list) THEN list[index + 1] ELSE Undefined

\* FileReaders of all uploads that have not fired yet
RECURSIVE readersLeft(_)
readersLeft(readers) ==
    IF readers = <<>> THEN 0
    ELSE Head(readers).totalFiles - Head(readers).uploadCount + readersLeft(Tail(readers))

\* init(): loadPhotos reads the stored photos, newest first; the camera
\* section is on screen and nothing is drawn in the gallery
GalInit ==
    /\ \E n \in 0..MaxStored :
          /\ photos = [k \in 1..n |-> n + 1 - k]
          /\ galClock = n
    /\ currentPhotoIndex = 0 - 1
    /\ galModal = [hidden |-> TRUE, src |-> 0]
    /\ galGrid = <<>>
    /\ galSection = "camera"
    /\ galReaders = <<>>
    /\ galLast = NotRun
    /\ LsbIdle
    /\ RwIdle
    /\ CapIdle
    /\ SlotIdle
    /\ RngIdle
    /\ RsIdle
    /\ PhIdle
    /\ GfIdle
    /\ VoteIdle
    /\ SrvIdle

\* showGallery: renderGallery draws the photos
showGallery ==
    /\ galSection = "camera"
    /\ galModal.hidden
    /\ galSection' = "gallery"
    /\ galGrid' = photos
    /\ UNCHANGED <<photos, currentPhotoIndex, galModal, galReaders, galClock, galLast,
                   lsbVars, rwVars, capVars, slotVars, rngVars, rsVars, hashVars, gfVars,
                   voteVars, srvVars>>

\* showCamera from the gallery's back button, or discardPhoto from the preview
showCamera ==
    /\ galSection \in {"gallery", "preview"}
    /\ galModal.hidden
    /\ galSection' = "camera"
    /\ UNCHANGED <<photos, currentPhotoIndex, galModal, galGrid, galReaders, galClock,
                   galLast, lsbVars, rwVars, capVars, slotVars, rngVars, rsVars, hashVars,
                   gfVars, voteVars, srvVars>>

\* capturePhoto: the preview of the captured photo comes on screen
capturePhoto ==
    /\ galSection = "camera"
    /\ galClock < MaxPhotos
    /\ galSection' = "preview"
    /\ UNCHANGED <<photos, currentPhotoIndex, galModal, galGrid, galReaders, galClock,
                   galLast, lsbVars, rwVars, capVars, slotVars, rngVars, rsVars, hashVars,
                   gfVars, voteVars, srvVars>>

\* savePhoto: the photo goes to the front, is stored, and the camera returns
savePhoto ==
    /\ galSection = "preview"
    /\ galClock + readersLeft(galReaders) < MaxPhotos
    /\ photos' = savePhotos(unshift(photos, galClock + 1))
    /\ galClock' = galClock + 1
    /\ galSection' = "camera"
    /\ UNCHANGED <<currentPhotoIndex, galModal, galGrid, galReaders, galLast,
                   lsbVars, rwVars, capVars, slotVars, rngVars, rsVars, hashVars, gfVars,
                   voteVars, srvVars>>

\* handlePhotoUpload of n image files: a FileReader is started for each
handlePhotoUpload ==
    /\ galSection = "gallery"
    /\ galModal.hidden
    /\ \E n \in 1..MaxFiles :
          /\ galClock + readersLeft(galReaders) + n <= MaxPhotos
          /\ galReaders' = Append(galReaders, [totalFiles |-> n, uploadCount |-> 0])
    /\ UNCHANGED <<photos, currentPhotoIndex, galModal, galGrid, galSection, galClock,
                   galLast, lsbVars, rwVars, capVars, slotVars, rngVars, rsVars, hashVars,
                   gfVars, voteVars, srvVars>>

\* reader.onload of one file of upload b: the photo goes to the front; after
\* the last file of the upload the photos are stored and the gallery drawn
readerOnload(b) ==
    /\ photos' = IF galReaders[b].uploadCount + 1 = galReaders[b].totalFiles
                 THEN savePhotos(unshift(photos, galClock + 1))
                 ELSE unshift(photos, galClock + 1)
    /\ galGrid' = IF galReaders[b].uploadCount + 1 = galReaders[b].totalFiles
                  THEN photos'
                  ELSE galGrid
    /\ galReaders' = IF galReaders[b].uploadCount + 1 = galReaders[b].totalFiles
                     THEN SubSeq(galReaders, 1, b - 1) \o SubSeq(galReaders, b + 1, Len(galReaders))
                     ELSE [galReaders EXCEPT ![b].uploadCount = @ + 1]
    /\ galClock' = galClock + 1
    /\ UNCHANGED <<currentPhotoIndex, galModal, galSection, galLast,
                   lsbVars, rwVars, capVars, slotVars, rngVars, rsVars, hashVars, gfVars,
                   voteVars, srvVars>>

ReaderOnload == \E b \in 1..Len(galReaders) : readerOnload(b)

\* openPhotoModal(index) from a click on item index of the gallery as drawn;
\* photo.data throws when photos has no such index, after the assignment
openPhotoModal ==
    /\ galSection = "gallery"
    /\ galModal.hidden
    /\ \E index \in 0..(Len(galGrid) - 1) :
          /\ currentPhotoIndex' = index
          /\ galModal' = IF photoAt(photos, index) = Undefined THEN galModal
                         ELSE [hidden |-> FALSE, src |-> photoAt(photos, index)]
    /\ UNCHANGED <<photos, galGrid, galSection, galReaders, galClock, galLast,
                   lsbVars, rwVars, capVars, slotVars, rngVars, rsVars, hashVars, gfVars,
                   voteVars, srvVars>>

\* closePhotoModal
closePhotoModal ==
    /\ ~galModal.hidden
    /\ galModal' = [galModal EXCEPT !.hidden = TRUE]
    /\ currentPhotoIndex' = 0 - 1
    /\ UNCHANGED <<photos, galGrid, galSection, galReaders, galClock, galLast,
                   lsbVars, rwVars, capVars, slotVars, rngVars, rsVars, hashVars, gfVars,
                   voteVars, srvVars>>

\* deletePhoto from the modal's button
deletePhoto ==
    /\ ~galModal.hidden
    /\ currentPhotoIndex >= 0
    /\ photos' = savePhotos(splice(photos, currentPhotoIndex))
    /\ galModal' = [galModal EXCEPT !.hidden = TRUE]
    /\ currentPhotoIndex' = 0 - 1
    /\ galGrid' = photos'
    /\ galLast' = [run |-> TRUE, op |-> "delete", shown |-> galModal.src,
                   photo |-> photoAt(photos, currentPhotoIndex)]
    /\ UNCHANGED <<galSection, galReaders, galClock,
                   lsbVars, rwVars, capVars, slotVars, rngVars, rsVars, hashVars, gfVars,
                   voteVars, srvVars>>

\* downloadPhoto from the modal's button
downloadPhoto ==
    /\ ~galModal.hidden
    /\ currentPhotoIndex >= 0
    /\ galLast' = [run |-> TRUE, op |-> "download", shown |-> galModal.src,
                   photo |-> photoAt(photos, currentPhotoIndex)]
    /\ UNCHANGED <<photos, currentPhotoIndex, galModal, galGrid, galSection, galReaders,
                   galClock, lsbVars, rwVars, capVars, slotVars, rngVars, rsVars, hashVars,
                   gfVars, voteVars, srvVars>>

GalNext ==
    \/ showGallery
    \/ showCamera
    \/ capturePhoto
    \/ savePhoto
    \/ handlePhotoUpload
    \/ ReaderOnload
    \/ openPhotoModal
    \/ closePhotoModal
    \/ deletePhoto
    \/ downloadPhoto

SpecGallery == GalInit /\ [][GalNext]_vars

\* C30: while the modal is open photos[currentPhotoIndex] is the photo the
\* modal shows, and deletePhoto and downloadPhoto act on that photo, for
\* every interleaving of openPhotoModal, FileReader onload, savePhoto and
\* deletePhoto
C30_ModalPhotoIsCurrent ==
    /\ ~galModal.hidden => photoAt(photos, currentPhotoIndex) = galModal.src
    /\ galLast.run => galLast.photo = galLast.shown

====
